---- MODULE Spec2Model ----
(***************************************************************************)
(* A model of the K-line builder and the technical-indicator routine of    *)
(* EastMoneyAPI (src/eastmoney_api.py), of the second implementation of    *)
(* the indicators, StockDataFetcher (src/data_fetcher.py), of the          *)
(* interactive loop of main and its retry helper (src/main.py), of the     *)
(* HTTP retry loop of StockDataFetcher._make_request, and of QuantAgent    *)
(* (src/investment_agents.py).                                             *)
(*                                                                         *)
(* Representation.                                                         *)
(*  - A text (a Python str) is a sequence of one-character strings.        *)
(*  - A raw provider line "a,b,c" is the sequence of its comma-separated   *)
(*    fields <<a, b, c>>, i.e. the value of line.split(',').               *)
(*  - A float is an exact integer count of 1/Unit (hundredths), so that    *)
(*    the division by 100 of the builder is exact on whole raw numbers.    *)
(*  - None is the record None; a DataFrame is a record holding its rows;   *)
(*    a dict is a function from its keys.                                  *)
(***************************************************************************)
EXTENDS Integers, Sequences, FiniteSets, TLC

VARIABLES
    pc,          \* "idle" | "returned": position of the caller
    call,        \* name of the method that ran last ("" before any call)
    response,    \* data['data']['klines'] of the provider's JSON, or NoKlines
    limit,       \* the limit argument of the call
    df,          \* value returned by get_kline_data
    frame,       \* columns computed by get_technical_indicators (its local df)
    indicators,  \* value returned by get_technical_indicators
    earlier,     \* an earlier invocation the caller kept to compare with
    \* main (src/main.py): its position and its local variables
    at,           \* "code prompt" | "choice prompt" | "exited" | "crashed"
    code_or_name, \* the stripped text read at the stock-code prompt
    stock_code,
    quotes,
    financial,
    stock_data,
    tech_data,
    choice,
    report,
    printed,      \* what main printed between the last two calls of input()
    \* the retry loops: fetch_data_with_retry and _make_request
    routine,      \* "" | name of the loop that runs or ran last
    step,         \* "idle" | "loop" | "returned" | "raised"
    outcomes,     \* what the successive calls of func / HTTP attempts will do
    retries,      \* local counter of fetch_data_with_retry
    attempt,      \* loop variable i of _make_request
    calls,        \* calls of func / HTTP attempts made so far
    slept,        \* the arguments of time.sleep so far, in order
    data          \* the value returned

klineVars == <<pc, call, response, limit, df, frame, indicators, earlier>>
mainVars == <<at, code_or_name, stock_code, quotes, financial, stock_data, tech_data,
              choice, report, printed>>
retryVars == <<routine, step, outcomes, retries, attempt, calls, slept, data>>
vars == <<klineVars, mainVars, retryVars>>

(***************************************************************************)
(* Bounds of the model.                                                    *)
(***************************************************************************)
MaxRows == 3          \* longest response of the row-level specification
MaxLimit == 2         \* largest limit argument tried by the row-level spec.
MaxDay == 3           \* dates of the row-level specification: 2024-01-01..03

(***************************************************************************)
(* Program constants.                                                      *)
(***************************************************************************)
FIELD_COUNT == 11     \* if len(items) < 11: continue
PRICE_DIVISOR == 100  \* float(items[k]) / 100
MIN_BARS == 20        \* len(df) < 20
DEFAULT_LIMIT == 200  \* get_kline_data(stock_code, period='daily', limit=200)

Unit == PRICE_DIVISOR \* a float v is stored as the integer v * Unit

(***************************************************************************)
(* Texts.                                                                  *)
(***************************************************************************)
DigitChars == {"0", "1", "2", "3", "4", "5", "6", "7", "8", "9"}

DigitVal ==
    [c \in DigitChars |->
        CASE c = "0" -> 0 [] c = "1" -> 1 [] c = "2" -> 2 [] c = "3" -> 3
          [] c = "4" -> 4 [] c = "5" -> 5 [] c = "6" -> 6 [] c = "7" -> 7
          [] c = "8" -> 8 [] c = "9" -> 9]

DigitChar == <<"0", "1", "2", "3", "4", "5", "6", "7", "8", "9">>

\* The decimal numeral of a natural number, as the provider writes it.
RECURSIVE Numeral(_)
Numeral(n) ==
    IF n < 10 THEN <<DigitChar[n + 1]>>
    ELSE Append(Numeral(n \div 10), DigitChar[(n % 10) + 1])

\* n written with at least two digits (month and day of a date).
TwoDigits(n) == IF n < 10 THEN <<"0">> \o Numeral(n) ELSE Numeral(n)

RECURSIVE NatOf(_)
NatOf(s) ==
    IF s = <<>> THEN 0
    ELSE NatOf(SubSeq(s, 1, Len(s) - 1)) * 10 + DigitVal[s[Len(s)]]

AllDigits(s) == \A i \in 1..Len(s) : s[i] \in DigitChars

\* The digits of a signed numeral: the text without its leading "-".
Magnitude(s) == IF s # <<>> /\ s[1] = "-" THEN Tail(s) ELSE s

\* float(s) raises ValueError unless s is a numeral.  (On texts over the
\* digits, "-" and letters: an optional "-" followed by one or more digits.)
RaisesValueError(s) == Magnitude(s) = <<>> \/ ~AllDigits(Magnitude(s))

\* float(s), for s a numeral.
float(s) ==
    IF s # <<>> /\ s[1] = "-" THEN -(NatOf(Magnitude(s)) * Unit)
    ELSE NatOf(Magnitude(s)) * Unit

(***************************************************************************)
(* get_kline_data                                                          *)
(***************************************************************************)
None == [kind |-> "None"]
DataFrame(rows) == [kind |-> "DataFrame", rows |-> rows]
NoKlines == [kind |-> "NoKlines"]          \* 'data' or 'klines' missing / null
Klines(lines) == [kind |-> "Klines", lines |-> lines]

\* Faulty variant of Scaled: the division by 100 is left out, as for volume.
ScaledAsVolume(item) == IF item # <<>> THEN float(item) ELSE 0

\* float(items[k]) / 100 if items[k] else 0
Scaled(item) == IF item # <<>> THEN float(item) \div PRICE_DIVISOR ELSE 0

\* float(items[k]) if items[k] else 0
Unscaled(item) == IF item # <<>> THEN float(item) ELSE 0

\* The dict appended for one line whose fields all convert.
KlineDict(items) ==
    [date           |-> items[1],
     open           |-> Scaled(items[2]),
     close          |-> Scaled(items[3]),
     high           |-> Scaled(items[4]),
     low            |-> Scaled(items[5]),
     volume         |-> Unscaled(items[6]),
     amount         |-> Unscaled(items[7]),
     amplitude      |-> Scaled(items[8]),
     change_percent |-> Scaled(items[9]),
     change_amount  |-> Scaled(items[10]),
     turnover       |-> Scaled(items[11])]

\* Faulty variant of LineSkipped: without the "if items[k] else 0" guards
\* float('') raises, and a line with an empty numeric field is skipped.
LineSkippedOnEmpty(items) ==
    \/ Len(items) < FIELD_COUNT
    \/ \E k \in 2..FIELD_COUNT : RaisesValueError(items[k])

\* Faulty variant of LineSkipped: "<=" for "<" in the test of the length.
LineSkippedOffByOne(items) ==
    \/ Len(items) <= FIELD_COUNT
    \/ \E k \in 2..FIELD_COUNT : items[k] # <<>> /\ RaisesValueError(items[k])

\* A line is skipped when it is short (continue) or when a non-empty numeric
\* field makes float() raise (except (ValueError, IndexError): continue).
LineSkipped(items) ==
    \/ Len(items) < FIELD_COUNT
    \/ \E k \in 2..FIELD_COUNT : items[k] # <<>> /\ RaisesValueError(items[k])

\* The body of the for loop: what one line adds to klines.
ParseLine(items) == IF LineSkipped(items) THEN <<>> ELSE <<KlineDict(items)>>

RECURSIVE ParseLinesAbort(_)
\* Faulty variant of ParseLines: "break" for "continue", the loop ends at the
\* first line skipped.
ParseLinesAbort(lines) ==
    IF lines = <<>> \/ LineSkipped(lines[1]) THEN <<>>
    ELSE <<KlineDict(lines[1])>> \o ParseLinesAbort(Tail(lines))

RECURSIVE ParseLines(_)
ParseLines(lines) ==
    IF lines = <<>> THEN <<>>
    ELSE ParseLines(SubSeq(lines, 1, Len(lines) - 1)) \o ParseLine(lines[Len(lines)])

\* Faulty variant of get_kline_data: without "if not klines: return None" an
\* empty DataFrame is returned when no line survives.
get_kline_data_unchecked(resp, lmt) ==
    IF resp.kind = "NoKlines" \/ resp.lines = <<>> THEN None
    ELSE DataFrame(ParseLines(resp.lines))

\* The limit is sent to the provider as 'lmt' and not used again.
get_kline_data(resp, lmt) ==
    IF resp.kind = "NoKlines" \/ resp.lines = <<>> THEN None
    ELSE LET klines == ParseLines(resp.lines)
         IN  IF klines = <<>> THEN None ELSE DataFrame(klines)

(***************************************************************************)
(* Exact arithmetic.  The indicator columns are rationals whose            *)
(* denominators grow with the row number, so a column value is kept as an  *)
(* exact integer multiple of a per-row scale.  Integers beyond the machine *)
(* range are sequences of limbs (least significant first, no leading zero  *)
(* limb); a signed integer is a pair <<p, n>> of naturals standing for     *)
(* p - n.                                                                  *)
(***************************************************************************)
Base == 100 * 100

RECURSIVE Carry(_, _, _)
\* Limbs of sum(a[j] * Base^(j-1), j >= i) + c, for limbs a[j] that may
\* exceed Base.
Carry(a, i, c) ==
    IF i > Len(a)
    THEN IF c = 0 THEN <<>> ELSE <<c % Base>> \o Carry(a, i, c \div Base)
    ELSE LET x == a[i] + c IN <<x % Base>> \o Carry(a, i + 1, x \div Base)

NatOfInt(k) == Carry(<<>>, 1, k)

\* The function f of domain 1..n as an explicit sequence.
AsSeq(f) == f \o <<>>

NatAdd(a, b) ==
    LET n == IF Len(a) > Len(b) THEN Len(a) ELSE Len(b)
    IN  Carry(AsSeq([i \in 1..n |-> (IF i <= Len(a) THEN a[i] ELSE 0)
                                  + (IF i <= Len(b) THEN b[i] ELSE 0)]), 1, 0)

\* a * k for a small natural k (k * Base fits the machine range).
NatMul(a, k) ==
    IF k = 0 THEN <<>> ELSE Carry(AsSeq([i \in 1..Len(a) |-> a[i] * k]), 1, 0)

RECURSIVE NatTimesFrom(_, _, _)
\* a * sum(b[i] * Base^(i-j), i >= j)
NatTimesFrom(a, b, j) ==
    IF j > Len(b) THEN <<>>
    ELSE LET rest == NatTimesFrom(a, b, j + 1)
         IN  IF rest = <<>> THEN NatMul(a, b[j])
             ELSE NatAdd(NatMul(a, b[j]), <<0>> \o rest)

NatTimes(a, b) == IF a = <<>> THEN <<>> ELSE NatTimesFrom(a, b, 1)

\* -1, 0 or 1 as a < b, a = b or a > b.
NatCmp(a, b) ==
    IF Len(a) # Len(b) THEN (IF Len(a) < Len(b) THEN -1 ELSE 1)
    ELSE LET D == {i \in 1..Len(a) : a[i] # b[i]}
         IN  IF D = {} THEN 0
             ELSE LET m == CHOOSE i \in D : \A j \in D : j <= i
                  IN  IF a[m] < b[m] THEN -1 ELSE 1

Zero == <<<<>>, <<>>>>
IntOf(k) == IF k >= 0 THEN <<NatOfInt(k), <<>>>> ELSE <<<<>>, NatOfInt(-k)>>
Plus(x, y) == <<NatAdd(x[1], y[1]), NatAdd(x[2], y[2])>>
Minus(x, y) == <<NatAdd(x[1], y[2]), NatAdd(x[2], y[1])>>
\* x * k for a small integer k.
Times(x, k) ==
    IF k >= 0 THEN <<NatMul(x[1], k), NatMul(x[2], k)>>
    ELSE <<NatMul(x[2], -k), NatMul(x[1], -k)>>
\* x * y.
Mul(x, y) ==
    <<NatAdd(NatTimes(x[1], y[1]), NatTimes(x[2], y[2])),
      NatAdd(NatTimes(x[1], y[2]), NatTimes(x[2], y[1]))>>
Sign(x) == NatCmp(x[1], x[2])
\* The pair with the common part of p and n left in place is not canonical;
\* two values are equal when their difference has sign 0.
Same(x, y) == Sign(Minus(x, y)) = 0

\* A float that may be NaN: the rational num / den (den > 0), or NaN.
Ratio(num, den) == [nan |-> FALSE, num |-> num, den |-> den]
NaN == [nan |-> TRUE, num |-> Zero, den |-> IntOf(1)]
\* Sign of r - k, for an integer k and a number r.
Versus(r, k) == Sign(Minus(r.num, Mul(r.den, IntOf(k))))
\* Sign of r - q.
Compare(r, q) == Sign(Minus(Mul(r.num, q.den), Mul(q.num, r.den)))
\* Comparisons with NaN are false.
Gt(r, q) == ~r.nan /\ ~q.nan /\ Compare(r, q) > 0
Lt(r, q) == ~r.nan /\ ~q.nan /\ Compare(r, q) < 0
\* Series.fillna(0)
fillna0(r) == IF r.nan THEN Ratio(Zero, IntOf(1)) ELSE r

(***************************************************************************)
(* get_technical_indicators                                                *)
(***************************************************************************)
FAST_SPAN == 12       \* df['close'].ewm(span=12, adjust=False)
SLOW_SPAN == 26       \* df['close'].ewm(span=26, adjust=False)
SIGNAL_SPAN == 9      \* df['MACD_DIF'].ewm(span=9, adjust=False)

EmptyDict == [k \in {} |-> 0]
NoFrame == [kind |-> "NoFrame"]

\* pd.to_datetime(text) on a date written YYYYMMDD: the day number
\* YYYYMMDD; it raises when the text is no date.  (Texts of the model: eight
\* digits, or texts holding a letter.)
DateRaises(s) ==
    \/ Len(s) # 8
    \/ ~AllDigits(s)
    \/ NatOf(SubSeq(s, 5, 6)) \notin 1..12
    \/ NatOf(SubSeq(s, 7, 8)) \notin 1..31
to_datetime(s) == NatOf(s)

\* df.sort_values(by='date'): ascending.  The default sort is not stable, so
\* rows of equal date come out in an order the caller cannot rely on: ties
\* is "kept" (input order) or "swapped" (reverse input order).
RECURSIVE InsertRow(_, _, _, _)
InsertRow(sorted, row, i, ties) ==
    IF i > Len(sorted) THEN Append(sorted, row)
    ELSE IF row.date < sorted[i].date \/ (row.date = sorted[i].date /\ ties = "swapped")
         THEN SubSeq(sorted, 1, i - 1) \o <<row>> \o SubSeq(sorted, i, Len(sorted))
         ELSE InsertRow(sorted, row, i + 1, ties)

\* Faulty variant of sort_values: the rows stay in the order of delivery.
sort_values_undone(rows, ties) == rows

RECURSIVE sort_values(_, _)
sort_values(rows, ties) ==
    IF rows = <<>> THEN <<>>
    ELSE InsertRow(sort_values(SubSeq(rows, 1, Len(rows) - 1), ties),
                   rows[Len(rows)], 1, ties)

HasEqualDates(rows) ==
    \E i, j \in 1..Len(rows) : i < j /\ rows[i].date = rows[j].date

\* The MACD columns.  ewm(span=s, adjust=False).mean() is
\*     y[1] = x[1],  y[i] = (2 * x[i] + (s - 1) * y[i-1]) / (s + 1).
\* Row i of every column is kept multiplied by MacdScale^(i-1), with
\* MacdScale the product of the three divisors, which makes every value an
\* integer:  with P = MacdScale^(i-2) and c = close[i],
\*     tF   = 2cP + (12-1) * exp1[i-1]      = 13 * P * (true exp1[i])
\*     tS   = 2cP + (26-1) * exp2[i-1]      = 27 * P * (true exp2[i])
\*     dif  = 27 * tF - 13 * tS             = MACD_DIF[i] / 10
\*     DEA  = (2 * DIF + (9-1) * MacdScale * DEA[i-1]) / 10
\*     MACD = (DIF - DEA) * 2
MacdScale == (FAST_SPAN + 1) * (SLOW_SPAN + 1) * (SIGNAL_SPAN + 1)

\* Faulty variant of MacdFirst: the averages start from 0 and not from the
\* first close.
MacdFirstZeroSeed(c) ==
    [exp1 |-> Zero, exp2 |-> Zero, MACD_DIF |-> Zero, MACD_DEA |-> Zero,
     MACD |-> Zero, scale |-> NatOfInt(1)]

MacdFirst(c) ==
    [exp1 |-> IntOf(c), exp2 |-> IntOf(c), MACD_DIF |-> Zero, MACD_DEA |-> Zero,
     MACD |-> Zero, scale |-> NatOfInt(1)]

\* Faulty variant of MacdStep: the two averages are exchanged in the
\* difference, MACD_DIF = exp2 - exp1.
MacdStepReversed(last, c) ==
    LET cP   == Times(<<last.scale, <<>>>>, 2 * c)
        tF   == Plus(cP, Times(last.exp1, FAST_SPAN - 1))
        tS   == Plus(cP, Times(last.exp2, SLOW_SPAN - 1))
        exp1 == Times(tF, (SLOW_SPAN + 1) * (SIGNAL_SPAN + 1))
        exp2 == Times(tS, (FAST_SPAN + 1) * (SIGNAL_SPAN + 1))
        dif  == Minus(Times(tS, FAST_SPAN + 1), Times(tF, SLOW_SPAN + 1))
        DIF  == Minus(exp2, exp1)
        DEA  == Plus(Times(dif, 2),
                     Times(last.MACD_DEA,
                           (SIGNAL_SPAN - 1) * (FAST_SPAN + 1) * (SLOW_SPAN + 1)))
    IN  [exp1 |-> exp1, exp2 |-> exp2, MACD_DIF |-> DIF, MACD_DEA |-> DEA,
         MACD |-> Times(Minus(DIF, DEA), 2),
         scale |-> NatMul(last.scale, MacdScale)]

MacdStep(last, c) ==
    LET cP   == Times(<<last.scale, <<>>>>, 2 * c)
        tF   == Plus(cP, Times(last.exp1, FAST_SPAN - 1))
        tS   == Plus(cP, Times(last.exp2, SLOW_SPAN - 1))
        exp1 == Times(tF, (SLOW_SPAN + 1) * (SIGNAL_SPAN + 1))
        exp2 == Times(tS, (FAST_SPAN + 1) * (SIGNAL_SPAN + 1))
        dif  == Minus(Times(tF, SLOW_SPAN + 1), Times(tS, FAST_SPAN + 1))
        DIF  == Minus(exp1, exp2)
        DEA  == Plus(Times(dif, 2),
                     Times(last.MACD_DEA,
                           (SIGNAL_SPAN - 1) * (FAST_SPAN + 1) * (SLOW_SPAN + 1)))
    IN  [exp1 |-> exp1, exp2 |-> exp2, MACD_DIF |-> DIF, MACD_DEA |-> DEA,
         MACD |-> Times(Minus(DIF, DEA), 2),
         scale |-> NatMul(last.scale, MacdScale)]

RECURSIVE MacdColumns(_, _, _)
\* The rows i.. of the MACD columns, acc holding the rows before i.
MacdColumns(close, i, acc) ==
    IF Len(acc) >= Len(close) THEN acc
    ELSE MacdColumns(close, i + 1,
            Append(acc, IF i = 1 THEN MacdFirst(close[1])
                        ELSE MacdStep(acc[i - 1], close[i])))

\* Faulty variant of macd_trend: ">=" for ">" in the test of the rise.
macd_trend_nonstrict(latest, prev) ==
    IF Sign(latest.MACD) > 0 /\ Sign(prev.MACD) < 0 THEN "golden-cross"
    ELSE IF Sign(latest.MACD) < 0 /\ Sign(prev.MACD) > 0 THEN "dead-cross"
    ELSE IF Sign(latest.MACD) >= 0 THEN "rising"
    ELSE "falling"

\* MACD金叉死叉判断
macd_trend(latest, prev) ==
    IF Sign(latest.MACD) > 0 /\ Sign(prev.MACD) < 0 THEN "golden-cross"
    ELSE IF Sign(latest.MACD) < 0 /\ Sign(prev.MACD) > 0 THEN "dead-cross"
    ELSE IF Sign(latest.MACD) > 0 THEN "rising"
    ELSE "falling"

\* 计算KDJ.  rolling(window=9) is NaN on the first 8 rows; ewm(alpha=1/3,
\* adjust=False).mean() is NaN up to the first number x[f] of its input, then
\*     y[f] = x[f],  y[i] = (x[i] + 2 * y[i-1]) / 3.
\* With a = close - low_9 and r = high_9 - low_9 in hundredths,
\*     RSV = a / (r + 0.000001) * 100 = N / Dn,
\*     N = a * 100 * EpsPerUnit,  Dn = r * EpsPerUnit + 1.
\* Row i of RSV, K, D and J is kept multiplied by scale[i], the product of
\* the divisors so far: scale[f] = Dn[f], scale[i] = 9 * Dn[i] * scale[i-1].
KDJ_WINDOW == 9       \* rolling(window=9)
KDJ_SMOOTH == 3       \* ewm(alpha=1/3, adjust=False)
EPS_INV == 1000000    \* 1 / 0.000001
EpsPerUnit == EPS_INV \div Unit

Min(S) == CHOOSE x \in S : \A y \in S : x <= y
Max(S) == CHOOSE x \in S : \A y \in S : x >= y
Window(xs, i, w) == {xs[j] : j \in (i - w + 1)..i}

\* Faulty variant of RsvNum: the factor 1000 for the factor 100.
RsvNumPerMille(rows, i) ==
    LET low_9 == Min(Window([j \in 1..Len(rows) |-> rows[j].low], i, KDJ_WINDOW))
    IN  Times(Times(IntOf(rows[i].close - low_9), 1000), EpsPerUnit)

RsvNum(rows, i) ==
    LET low_9 == Min(Window([j \in 1..Len(rows) |-> rows[j].low], i, KDJ_WINDOW))
    IN  Times(Times(IntOf(rows[i].close - low_9), 100), EpsPerUnit)

\* Faulty variant of RsvDen: the 0.000001 is left out of the denominator.
RsvDenUnguarded(rows, i) ==
    LET low_9  == Min(Window([j \in 1..Len(rows) |-> rows[j].low], i, KDJ_WINDOW))
        high_9 == Max(Window([j \in 1..Len(rows) |-> rows[j].high], i, KDJ_WINDOW))
    IN  IntOf((high_9 - low_9) * EpsPerUnit)

RsvDen(rows, i) ==
    LET low_9  == Min(Window([j \in 1..Len(rows) |-> rows[j].low], i, KDJ_WINDOW))
        high_9 == Max(Window([j \in 1..Len(rows) |-> rows[j].high], i, KDJ_WINDOW))
    IN  IntOf((high_9 - low_9) * EpsPerUnit + 1)

\* N / Dn = Upright(N, Dn) / Absolute(Dn): the denominator is negative
\* where the highest high of the window lies below its lowest low.
Absolute(Dn) == IF Sign(Dn) < 0 THEN <<Dn[2], <<>>>> ELSE Dn
Upright(N, Dn) == IF Sign(Dn) < 0 THEN <<N[2], N[1]>> ELSE N

KdjNaN ==
    [nan |-> TRUE, RSV |-> Zero, K |-> Zero, D |-> Zero, J |-> Zero,
     scale |-> NatOfInt(1)]

\* df['J'] = 3 * df['K'] - 2 * df['D']
JOf(K, D) == Minus(Times(K, 3), Times(D, 2))

KdjFirst(N, Dn) ==
    [nan |-> FALSE, RSV |-> N, K |-> N, D |-> N, J |-> JOf(N, N), scale |-> Dn[1]]

KdjStep(last, N, Dn) ==
    LET sN    == Mul(<<last.scale, <<>>>>, N)
        \* K[i] * scale[i] / 3
        third == Plus(sN, Times(Mul(last.K, Dn), KDJ_SMOOTH - 1))
        K     == Times(third, KDJ_SMOOTH)
        D     == Plus(third, Times(Mul(last.D, Dn), KDJ_SMOOTH * (KDJ_SMOOTH - 1)))
    IN  [nan |-> FALSE, RSV |-> Times(sN, KDJ_SMOOTH * KDJ_SMOOTH), K |-> K, D |-> D,
         J |-> JOf(K, D),
         scale |-> NatMul(NatTimes(last.scale, Dn[1]), KDJ_SMOOTH * KDJ_SMOOTH)]

RECURSIVE KdjColumns(_, _, _)
KdjColumns(rows, i, acc) ==
    IF Len(acc) >= Len(rows) THEN acc
    ELSE KdjColumns(rows, i + 1,
            Append(acc,
                   IF i < KDJ_WINDOW THEN KdjNaN
                   ELSE IF i = KDJ_WINDOW
                   THEN KdjFirst(Upright(RsvNum(rows, i), RsvDen(rows, i)),
                                 Absolute(RsvDen(rows, i)))
                   ELSE KdjStep(acc[i - 1], Upright(RsvNum(rows, i), RsvDen(rows, i)),
                                Absolute(RsvDen(rows, i)))))

\* A cell of K, D or J as a number.
KdjCell(row, col) ==
    IF row.nan THEN NaN ELSE Ratio(row[col], <<row.scale, <<>>>>)

\* Faulty variant of kdj_trend: ">=" and "<=" for ">" and "<".
kdj_trend_nonstrict(J) ==
    IF ~J.nan /\ Versus(J, 80) >= 0 THEN "overbought"
    ELSE IF ~J.nan /\ Versus(J, 20) <= 0 THEN "oversold"
    ELSE "neutral"

\* KDJ超买超卖判断
kdj_trend(J) ==
    IF ~J.nan /\ Versus(J, 80) > 0 THEN "overbought"
    ELSE IF ~J.nan /\ Versus(J, 20) < 0 THEN "oversold"
    ELSE "neutral"

\* 计算RSI, on the last row.  gain and loss are 0 on the first row (the
\* NaN of diff()).  With G and L the sums of the last 14 gains and losses in
\* hundredths,
\*     rs  = (G / 14) / (L / 14 + 0.000001) = G * EpsPerUnit / (L * EpsPerUnit + 14)
\*     RSI = 100 - 100 / (1 + rs) = 100 * rs_num / (rs_den + rs_num).
RSI_WINDOW == 14      \* rolling(window=14)

Gain(close, i) ==
    IF i > 1 /\ close[i] - close[i - 1] > 0 THEN close[i] - close[i - 1] ELSE 0
Loss(close, i) ==
    IF i > 1 /\ close[i] - close[i - 1] < 0 THEN -(close[i] - close[i - 1]) ELSE 0

RECURSIVE SeqSum(_)
SeqSum(xs) == IF xs = <<>> THEN 0 ELSE xs[1] + SeqSum(Tail(xs))

\* Faulty variant of LastRsi: the window of 14 counted in closes, which
\* makes 13 moves.
LastRsiShortWindow(close) ==
    LET n == Len(close)
    IN  IF n < RSI_WINDOW THEN NaN
        ELSE LET G == SeqSum([j \in 1..(RSI_WINDOW - 1) |-> Gain(close, n - RSI_WINDOW + 1 + j)])
                 L == SeqSum([j \in 1..(RSI_WINDOW - 1) |-> Loss(close, n - RSI_WINDOW + 1 + j)])
                 rs_num == Times(IntOf(G), EpsPerUnit)
                 rs_den == Plus(Times(IntOf(L), EpsPerUnit), IntOf(RSI_WINDOW))
             IN  Ratio(Times(rs_num, 100), Plus(rs_den, rs_num))

LastRsi(close) ==
    LET n == Len(close)
    IN  IF n < RSI_WINDOW THEN NaN
        ELSE LET G == SeqSum([j \in 1..RSI_WINDOW |-> Gain(close, n - RSI_WINDOW + j)])
                 L == SeqSum([j \in 1..RSI_WINDOW |-> Loss(close, n - RSI_WINDOW + j)])
                 rs_num == Times(IntOf(G), EpsPerUnit)
                 rs_den == Plus(Times(IntOf(L), EpsPerUnit), IntOf(RSI_WINDOW))
             IN  Ratio(Times(rs_num, 100), Plus(rs_den, rs_num))

\* RSI超买超卖判断
rsi_trend(RSI) ==
    IF ~RSI.nan /\ Versus(RSI, 70) > 0 THEN "overbought"
    ELSE IF ~RSI.nan /\ Versus(RSI, 30) < 0 THEN "oversold"
    ELSE "neutral"

\* rolling(window=w).mean() on the last row: NaN on fewer than w rows.
LastMean(xs, w) ==
    IF Len(xs) < w THEN NaN
    ELSE Ratio(IntOf(SeqSum(SubSeq(xs, Len(xs) - w + 1, Len(xs)))), IntOf(w))

\* 计算BOLL.  rolling(window=20).std() is the sample deviation; its square
\* on the last row is (20 * sum(c^2) - sum(c)^2) / (20 * 19).
BOLL_WINDOW == 20     \* rolling(window=20)

RECURSIVE SumSquaresFrom(_, _, _)
\* The running sums of xs[j]^2; acc holds the sums up to j = i - 1.
SumSquaresFrom(xs, i, acc) ==
    IF Len(acc) >= Len(xs) THEN acc
    ELSE SumSquaresFrom(xs, i + 1,
            Append(acc, Plus(IF i = 1 THEN Zero ELSE acc[i - 1], IntOf(xs[i] * xs[i]))))

SumSquares(xs) == IF xs = <<>> THEN Zero ELSE SumSquaresFrom(xs, 1, <<>>)[Len(xs)]

\* Faulty variant of LastVar: the squares are not centred on the mean.
LastVarUncentred(xs, w) ==
    IF Len(xs) < w THEN NaN
    ELSE LET win == SubSeq(xs, Len(xs) - w + 1, Len(xs))
         IN  Ratio(Times(SumSquares(win), w), IntOf(w * (w - 1)))

LastVar(xs, w) ==
    IF Len(xs) < w THEN NaN
    ELSE LET win == SubSeq(xs, Len(xs) - w + 1, Len(xs))
             sum == IntOf(SeqSum(win))
         IN  Ratio(Minus(Times(SumSquares(win), w), Mul(sum, sum)),
                   IntOf(w * (w - 1)))

\* x > mid + 2 * sqrt(var), for numbers x and mid and var >= 0:
\* x - mid > 0 and (x - mid)^2 > 4 * var.
Above2Std(x, mid, var) ==
    /\ ~mid.nan /\ ~var.nan
    /\ LET d  == Minus(Mul(x.num, mid.den), Mul(mid.num, x.den))
           dd == Mul(x.den, mid.den)
       IN  /\ Sign(d) > 0
           /\ Sign(Minus(Mul(Mul(d, d), var.den), Times(Mul(var.num, Mul(dd, dd)), 4))) > 0

\* x < mid - 2 * sqrt(var)
Below2Std(x, mid, var) ==
    /\ ~mid.nan /\ ~var.nan
    /\ LET d  == Minus(Mul(mid.num, x.den), Mul(x.num, mid.den))
           dd == Mul(x.den, mid.den)
       IN  /\ Sign(d) > 0
           /\ Sign(Minus(Mul(Mul(d, d), var.den), Times(Mul(var.num, Mul(dd, dd)), 4))) > 0

\* Faulty variant of boll_trend: ">=" for ">" in the test against MA20.
boll_trend_nonstrict(close, MA20, VAR20) ==
    IF Above2Std(close, MA20, VAR20) THEN "break-upper"
    ELSE IF Below2Std(close, MA20, VAR20) THEN "break-lower"
    ELSE IF ~close.nan /\ ~MA20.nan /\ Compare(close, MA20) >= 0 THEN "near-upper"
    ELSE "near-lower"

\* BOLL带趋势判断
boll_trend(close, MA20, VAR20) ==
    IF Above2Std(close, MA20, VAR20) THEN "break-upper"
    ELSE IF Below2Std(close, MA20, VAR20) THEN "break-lower"
    ELSE IF Gt(close, MA20) THEN "near-upper"
    ELSE "near-lower"

\* 趋势判断
price_trend(close, MA30) == IF Gt(close, MA30) THEN "rising" ELSE "falling"

\* The rows of the frame after the date conversion, the sort and the
\* indicator columns; the columns read on the last row only are kept for
\* that row, after df.fillna(0).
Frame(rows, ties) ==
    LET dated  == [i \in 1..Len(rows) |->
                      [rows[i] EXCEPT !.date = to_datetime(rows[i].date)]]
        sorted == sort_values(dated, ties)
        close  == AsSeq([i \in 1..Len(sorted) |-> sorted[i].close])
    IN  [kind  |-> "Frame",
         rows  |-> sorted,
         macd  |-> MacdColumns(close, 1, <<>>),
         kdj   |-> KdjColumns(sorted, 1, <<>>),
         RSI   |-> fillna0(LastRsi(close)),
         MA20  |-> fillna0(LastMean(close, BOLL_WINDOW)),
         VAR20 |-> fillna0(LastVar(close, BOLL_WINDOW)),
         MA5   |-> fillna0(LastMean(close, 5)),
         MA10  |-> fillna0(LastMean(close, 10)),
         MA30  |-> fillna0(LastMean(close, 30)),
         MA60  |-> fillna0(LastMean(close, 60))]

\* A cell of MACD_DIF, MACD_DEA or MACD as a number.
MacdCell(row, col) == Ratio(row[col], <<row.scale, <<>>>>)

\* df['MA20'] + 2 * df['STD20'] (side = 1) and df['MA20'] - 2 * df['STD20']
\* (side = -1): the deviation is the square root of var, so the band is kept
\* as the mean, the variance and the side.
Band(mid, var, side) == [nan |-> mid.nan \/ var.nan, mid |-> mid, var |-> var, side |-> side]

\* round(float(x), ndigits): the number x rounded to ndigits decimals.  The
\* value is kept with the number of decimals; what is read of it (its sign,
\* its comparison with a whole number) is read through the rounding.
round(x, ndigits) == [value |-> x, ndigits |-> ndigits]

\* The dict built from the last two rows of the frame: the rounded columns,
\* the labels and the price data.
Indicators(fr) ==
    LET n      == Len(fr.rows)
        latest == fr.rows[n]
        close  == Ratio(IntOf(latest.close), IntOf(1))
        m      == fr.macd[n]
        mprev  == IF n > 1 THEN fr.macd[n - 1] ELSE m
        kdj    == fr.kdj[n]
    IN  [MACD       |-> [DIF   |-> round(MacdCell(m, "MACD_DIF"), 3),
                         DEA   |-> round(MacdCell(m, "MACD_DEA"), 3),
                         MACD  |-> round(MacdCell(m, "MACD"), 3),
                         trend |-> macd_trend(m, mprev)],
         KDJ        |-> [K     |-> round(fillna0(KdjCell(kdj, "K")), 2),
                         D     |-> round(fillna0(KdjCell(kdj, "D")), 2),
                         J     |-> round(fillna0(KdjCell(kdj, "J")), 2),
                         trend |-> kdj_trend(fillna0(KdjCell(kdj, "J")))],
         RSI        |-> [RSI   |-> round(fr.RSI, 2),
                         trend |-> rsi_trend(fr.RSI)],
         BOLL       |-> [UPPER |-> round(Band(fr.MA20, fr.VAR20, 1), 2),
                         MID   |-> round(fr.MA20, 2),
                         LOWER |-> round(Band(fr.MA20, fr.VAR20, -1), 2),
                         trend |-> boll_trend(close, fr.MA20, fr.VAR20)],
         MA         |-> [MA5   |-> round(fr.MA5, 2),
                         MA10  |-> round(fr.MA10, 2),
                         MA30  |-> round(fr.MA30, 2),
                         MA60  |-> round(fr.MA60, 2),
                         trend |-> price_trend(close, fr.MA30)],
         price_data |-> [current        |-> latest.close,
                         change_percent |-> latest.change_percent,
                         amplitude      |-> latest.amplitude,
                         volume         |-> latest.volume,
                         turnover       |-> latest.turnover]]

\* Faulty variant of TechnicalFrame: "<=" for "<" in the test of the length.
TechnicalFrameOffByOne(resp, ties) ==
    LET got == get_kline_data(resp, DEFAULT_LIMIT)
    IN  IF got.kind = "None" \/ Len(got.rows) <= MIN_BARS THEN NoFrame
        ELSE IF \E i \in 1..Len(got.rows) : DateRaises(got.rows[i].date) THEN NoFrame
        ELSE Frame(got.rows, ties)

\* The local frame of get_technical_indicators: NoFrame when the routine
\* returns before computing (no data, fewer than 20 rows) or when
\* pd.to_datetime raises (any exception is caught and {} returned).
TechnicalFrame(resp, ties) ==
    LET got == get_kline_data(resp, DEFAULT_LIMIT)
    IN  IF got.kind = "None" \/ Len(got.rows) < MIN_BARS THEN NoFrame
        ELSE IF \E i \in 1..Len(got.rows) : DateRaises(got.rows[i].date) THEN NoFrame
        ELSE Frame(got.rows, ties)

\* Faulty variant of get_technical_indicators: the routine keeps the frame
\* it computed last and returns nothing for a frame it has seen.
get_technical_indicators_once(fr) ==
    IF fr.kind = "NoFrame" \/ (earlier.kind = "Earlier" /\ earlier.frame = fr)
    THEN EmptyDict ELSE Indicators(fr)

\* The value returned, given the local frame.
get_technical_indicators(fr) ==
    IF fr.kind = "NoFrame" THEN EmptyDict ELSE Indicators(fr)

\* The tie orders the sort of a response can take.
TieOrders(resp) ==
    LET got == get_kline_data(resp, DEFAULT_LIMIT)
    IN  IF got.kind = "DataFrame" /\ HasEqualDates(got.rows)
        THEN {"kept", "swapped"} ELSE {"kept"}

(***************************************************************************)
(* StockDataFetcher (src/data_fetcher.py), the second implementation of    *)
(* the indicators.  Its floats are not filled and not guarded: a cell is a *)
(* number num / den (den a natural number), NaN, or an infinity.           *)
(***************************************************************************)
Num(num, den) == [kind |-> "num", num |-> num, den |-> den]
Special(kind) == [kind |-> kind, num |-> Zero, den |-> NatOfInt(1)]

\* The dict appended for one line: no field is divided.
FetcherKlineDict(items) ==
    [date           |-> items[1],
     open           |-> float(items[2]),
     close          |-> float(items[3]),
     high           |-> float(items[4]),
     low            |-> float(items[5]),
     volume         |-> float(items[6]),
     amount         |-> float(items[7]),
     amplitude      |-> float(items[8]),
     change_percent |-> float(items[9]),
     change_amount  |-> float(items[10]),
     turnover       |-> float(items[11])]

\* StockDataFetcher._get_kline_data: an IndexError (short line) or a
\* ValueError (a field float() rejects, the empty field included) on any
\* line ends in "except Exception: return None"; an empty list of lines
\* gives an empty DataFrame.
StockDataFetcher_get_kline_data(resp, lmt) ==
    IF resp.kind = "NoKlines" THEN None
    ELSE IF \E i \in 1..Len(resp.lines) :
               \/ Len(resp.lines[i]) < FIELD_COUNT
               \/ \E k \in 2..FIELD_COUNT : RaisesValueError(resp.lines[i][k])
         THEN None
    ELSE DataFrame(AsSeq([i \in 1..Len(resp.lines) |-> FetcherKlineDict(resp.lines[i])]))

\* df['RSV'] = (df['close'] - low_9) / (high_9 - low_9) * 100 on row i: NaN
\* on the first 8 rows; on a window of no range 0 / 0 is NaN and a / 0 an
\* infinity of the sign of a.
FetcherRsv(rows, i) ==
    IF i < KDJ_WINDOW THEN Special("nan")
    ELSE LET low_9  == Min(Window([j \in 1..Len(rows) |-> rows[j].low], i, KDJ_WINDOW))
             high_9 == Max(Window([j \in 1..Len(rows) |-> rows[j].high], i, KDJ_WINDOW))
             a      == rows[i].close - low_9
             r      == high_9 - low_9
         IN  IF r = 0
             THEN Special(IF a = 0 THEN "nan" ELSE IF a > 0 THEN "inf" ELSE "-inf")
             ELSE IF r > 0 THEN Num(IntOf(a * 100), NatOfInt(r))
             ELSE Num(IntOf(-a * 100), NatOfInt(-r))

\* ewm(com=2).mean(): adjust=True, ignore_na=False, alpha = 1 / 3.  The
\* state after a row is the average (weighted) and old_wt = a / p.  Per row:
\*     weighted is NaN:  weighted = cur if cur is a number (old_wt is kept);
\*     otherwise:        old_wt *= 2 / 3, and if cur is not NaN
\*                       weighted = (old_wt * weighted + cur) / (old_wt + 1),
\*                       old_wt += 1.
\* The denominators: with weighted = wn / (g * L) and cur = xn / (g * X),
\*     weighted' = (a1 * wn * X + p1 * xn * L) / ((a1 + p1) * g * L * X),
\* where a1 / p1 is the old_wt after the decay.  rel is L and grow is the
\* factor by which the denominator of the cell grew on this row.  The input
\* of K (RSV) has a fresh denominator on every row (g = 1, nested = FALSE);
\* the input of D (K) has a denominator that grows by K's grow on every row
\* and divides that of D (g = the denominator of K on the row before,
\* nested = TRUE).
EwmFirst(x, nested) ==
    [kind |-> x.kind, num |-> x.num, den |-> x.den, grow |-> x.den,
     rel |-> IF nested THEN NatOfInt(1) ELSE x.den,
     a |-> NatOfInt(1), p |-> NatOfInt(1)]

\* The sum of two cells that are not both numbers and not NaN.
SumKind(k1, k2) ==
    IF k1 = "num" THEN k2
    ELSE IF k2 = "num" \/ k2 = k1 THEN k1
    ELSE "nan"

EwmStep(last, x, nested) ==
    IF last.kind = "nan"
    THEN IF x.kind = "nan" THEN [last EXCEPT !.grow = NatOfInt(1)]
         ELSE [last EXCEPT !.kind = x.kind, !.num = x.num, !.den = x.den,
                           !.grow = x.den,
                           !.rel = IF nested THEN NatOfInt(1) ELSE x.den]
    ELSE LET a1 == NatMul(last.a, KDJ_SMOOTH - 1)
             p1 == NatMul(last.p, KDJ_SMOOTH)
             a2 == NatAdd(a1, p1)
             X  == IF nested THEN x.grow ELSE x.den
         IN  IF x.kind = "nan"
             THEN [last EXCEPT !.a = a1, !.p = p1, !.grow = NatOfInt(1)]
             ELSE IF last.kind = "num" /\ x.kind = "num"
             THEN [kind |-> "num",
                   num  |-> Plus(Mul(Mul(<<a1, <<>>>>, last.num), <<X, <<>>>>),
                                 Mul(Mul(<<p1, <<>>>>, x.num), <<last.rel, <<>>>>)),
                   den  |-> NatTimes(NatTimes(a2, last.den), X),
                   grow |-> NatTimes(a2, X),
                   rel  |-> IF nested THEN NatTimes(a2, last.rel)
                            ELSE NatTimes(NatTimes(a2, last.den), X),
                   a    |-> a2,
                   p    |-> p1]
             ELSE [kind |-> SumKind(last.kind, x.kind), num |-> Zero,
                   den |-> NatOfInt(1), grow |-> NatOfInt(1), rel |-> NatOfInt(1),
                   a |-> a2, p |-> p1]

\* df['J'] = 3 * df['K'] - 2 * df['D'], the denominator of D being that of
\* K times D.rel.
FetcherJ(K, D) ==
    IF K.kind = "nan" \/ D.kind = "nan" THEN Special("nan")
    ELSE IF K.kind = "num" /\ D.kind = "num"
    THEN Num(Minus(Times(Mul(K.num, <<D.rel, <<>>>>), 3), Times(D.num, 2)), D.den)
    ELSE IF D.kind = "num" THEN Special(K.kind)
    ELSE IF K.kind = D.kind THEN Special("nan")
    ELSE Special(IF D.kind = "inf" THEN "-inf" ELSE "inf")

RECURSIVE FetcherKdjColumns(_, _, _)
\* The rows i.. of RSV, K, D and J, acc holding the rows before i.
FetcherKdjColumns(rows, i, acc) ==
    IF Len(acc) >= Len(rows) THEN acc
    ELSE LET RSV == FetcherRsv(rows, i)
             K   == IF i = 1 THEN EwmFirst(RSV, FALSE) ELSE EwmStep(acc[i - 1].K, RSV, FALSE)
             D   == IF i = 1 THEN EwmFirst(K, TRUE) ELSE EwmStep(acc[i - 1].D, K, TRUE)
         IN  FetcherKdjColumns(rows, i + 1,
                Append(acc, [RSV |-> RSV, K |-> K, D |-> D, J |-> FetcherJ(K, D)]))

\* 计算RSI, on the last row: rs = gain / loss with gain = G / 14 and
\* loss = L / 14; 0 / 0 is NaN, G / 0 is infinite and makes
\* 100 - 100 / (1 + rs) = 100.
FetcherLastRsi(close) ==
    LET n == Len(close)
    IN  IF n < RSI_WINDOW THEN Special("nan")
        ELSE LET G == SeqSum([j \in 1..RSI_WINDOW |-> Gain(close, n - RSI_WINDOW + j)])
                 L == SeqSum([j \in 1..RSI_WINDOW |-> Loss(close, n - RSI_WINDOW + j)])
             IN  IF L = 0
                 THEN IF G = 0 THEN Special("nan") ELSE Num(IntOf(100), NatOfInt(1))
                 ELSE Num(IntOf(100 * G), NatOfInt(G + L))

\* Sign of c - k for a cell c that is not NaN and a whole number k.
CellVersus(c, k) ==
    IF c.kind = "inf" THEN 1
    ELSE IF c.kind = "-inf" THEN -1
    ELSE Sign(Minus(c.num, Mul(<<c.den, <<>>>>, IntOf(k))))

\* '超买' if latest['J'] > 80 else '超卖' if latest['J'] < 20 else '中性'
fetcher_kdj_trend(J) ==
    IF J.kind # "nan" /\ CellVersus(J, 80) > 0 THEN "overbought"
    ELSE IF J.kind # "nan" /\ CellVersus(J, 20) < 0 THEN "oversold"
    ELSE "neutral"

\* '超买' if latest['RSI'] > 70 else '超卖' if latest['RSI'] < 30 else '中性'
fetcher_rsi_trend(RSI) ==
    IF RSI.kind # "nan" /\ CellVersus(RSI, 70) > 0 THEN "overbought"
    ELSE IF RSI.kind # "nan" /\ CellVersus(RSI, 30) < 0 THEN "oversold"
    ELSE "neutral"

\* The cell held by a state of an average.
Cell(st) == [kind |-> st.kind, num |-> st.num, den |-> st.den]

\* The local frame of StockDataFetcher.get_technical_indicators: the rows in
\* the order delivered (no sort, no date conversion, no fillna).
FetcherFrame(resp) ==
    LET got == StockDataFetcher_get_kline_data(resp, DEFAULT_LIMIT)
    IN  IF got.kind = "None" \/ Len(got.rows) < MIN_BARS THEN NoFrame
        ELSE LET close == AsSeq([i \in 1..Len(got.rows) |-> got.rows[i].close])
             IN  [kind |-> "FetcherFrame",
                  rows |-> got.rows,
                  macd |-> MacdColumns(close, 1, <<>>),
                  kdj  |-> FetcherKdjColumns(got.rows, 1, <<>>),
                  RSI  |-> FetcherLastRsi(close)]

\* The value returned by StockDataFetcher.get_technical_indicators.
StockDataFetcher_get_technical_indicators(fr) ==
    IF fr.kind = "NoFrame" THEN EmptyDict
    ELSE LET n      == Len(fr.rows)
             latest == fr.rows[n]
             kdj    == fr.kdj[n]
         IN  [MACD       |-> [DIF   |-> round(MacdCell(fr.macd[n], "MACD_DIF"), 3),
                              DEA   |-> round(MacdCell(fr.macd[n], "MACD_DEA"), 3),
                              MACD  |-> round(MacdCell(fr.macd[n], "MACD"), 3),
                              trend |-> macd_trend(fr.macd[n], fr.macd[n - 1])],
              KDJ        |-> [K     |-> round(Cell(kdj.K), 2),
                              D     |-> round(Cell(kdj.D), 2),
                              J     |-> round(kdj.J, 2),
                              trend |-> fetcher_kdj_trend(kdj.J)],
              RSI        |-> [RSI   |-> round(fr.RSI, 2),
                              trend |-> fetcher_rsi_trend(fr.RSI)],
              price_data |-> [current        |-> latest.close,
                              change_percent |-> latest.change_percent,
                              amplitude      |-> latest.amplitude,
                              volume         |-> latest.volume,
                              turnover       |-> latest.turnover]]

(***************************************************************************)
(* Provider responses of the model.                                        *)
(***************************************************************************)
DateText(d) == <<"2", "0", "2", "4", "0", "1">> \o TwoDigits(d)

\* The raw numbers of one row, in the order of the wire after the date:
\* open, close, high, low, volume, amount, amplitude, change_percent,
\* change_amount, turnover.
ExampleValues == <<1000, 1010, 1020, 990, 50000, 5000000, 300, 100, 10, 150>>

\* A well-formed line of day d; its numbers differ from field to field and
\* from day to day.
GoodLine(d) ==
    <<DateText(d)>> \o [k \in 1..(FIELD_COUNT - 1) |-> Numeral(ExampleValues[k] + d)]

WithField(line, k, text) == [line EXCEPT ![k] = text]

\* Lines that make up the responses of several rows.
SeqLines ==
    {GoodLine(d) : d \in 1..MaxDay}
      \cup {SubSeq(GoodLine(1), 1, FIELD_COUNT - 1),
            WithField(GoodLine(2), 3, <<"1", "x">>),
            WithField(GoodLine(3), 6, <<>>)}

\* Lines tried alone: every numeric field in turn empty, malformed or
\* negative, and every number of fields up to one more than FIELD_COUNT.
OddTexts == {<<>>, <<"x">>, <<"-">>, <<"-", "5", "0", "0">>, <<"5", "-">>}
SingleLines ==
    {WithField(GoodLine(1), k, t) : k \in 2..FIELD_COUNT, t \in OddTexts}
      \cup {SubSeq(GoodLine(1) \o <<<<"7">>>>, 1, n) : n \in 1..(FIELD_COUNT + 1)}
      \cup {<<<<>>>>, [k \in 1..FIELD_COUNT |-> <<>>]}

RowResponses ==
    {NoKlines}
      \cup {Klines(s) : s \in UNION {[1..n -> SeqLines] : n \in 0..MaxRows}}
      \cup {Klines(<<l>>) : l \in SingleLines}

\* Price histories.  The close starts at BaseClose and moves by step1 per
\* bar up to the bar numbered turn, then by step2 per bar; high and low lie
\* Spread above and below the close.  The provider delivers the rows oldest
\* first or newest first.
MaxBars == 26         \* longest history
MaxTurn == 1          \* the turn lies within MaxTurn moves of either end
BigStep == 100        \* the large move per bar, in hundredths
BaseClose == 3000     \* close of the first bar, in hundredths
Spread == 5           \* high - close and close - low, in hundredths

Steps == {-BigStep, -1, 0, 1, BigStep}
SeriesLens == {MIN_BARS - 1, MIN_BARS} \cup (SLOW_SPAN..MaxBars)
\* Number of moves by step1 in a history of n bars (n - 1 moves): at least
\* one move by each step (step1 = step2 gives the histories of one step).
Turns(n) == (1..MaxTurn) \cup ((n - 1 - MaxTurn)..(n - 2))

\* Raw close (hundredths) of bar i.
CloseAt(i, turn, step1, step2) ==
    IF i <= turn + 1 THEN BaseClose + (i - 1) * step1
    ELSE BaseClose + turn * step1 + (i - 1 - turn) * step2

SeriesLine(i, c) ==
    LET text == Numeral(c)
    IN  <<DateText(i), text, text, Numeral(c + Spread), Numeral(c - Spread),
          Numeral(900 + i), <<"5", "0", "0", "0">>, <<"3", "0", "0">>,
          Numeral(100 + i), <<"1", "0">>, Numeral(150 + i)>>

Series(n, turn, step1, step2, order) ==
    AsSeq([j \in 1..n |->
              LET i == IF order = "oldest-first" THEN j ELSE n + 1 - j
              IN  SeriesLine(i, CloseAt(i, turn, step1, step2))])

\* A line of a bar without range: high = low = close.
RangelessLine(i, c) ==
    LET text == Numeral(c)
    IN  <<DateText(i), text, text, text, text,
          Numeral(900 + i), <<"5", "0", "0", "0">>, <<"0">>,
          Numeral(100 + i), <<"1", "0">>, Numeral(150 + i)>>

\* The history of n bars in which the last bars, as many as given, have no
\* range.
RangelessSeries(n, turn, step1, step2, bars) ==
    AsSeq([i \in 1..n |->
              IF i > n - bars THEN RangelessLine(i, CloseAt(i, turn, step1, step2))
              ELSE SeriesLine(i, CloseAt(i, turn, step1, step2))])

\* A line of a bar whose high lies below its low.
InvertedLine(i, c) ==
    LET text == Numeral(c)
    IN  <<DateText(i), text, text, Numeral(c - Spread), Numeral(c + Spread),
          Numeral(900 + i), <<"5", "0", "0", "0">>, <<"3", "0", "0">>,
          Numeral(100 + i), <<"1", "0">>, Numeral(150 + i)>>

\* Histories with bars that break low <= close <= high: the close of the
\* newest bar lies above every high or below every low, or every bar has
\* its high below its low.
OutOfRangeSeries ==
    {[Series(MIN_BARS, 1, 1, 1, "oldest-first") EXCEPT
         ![MIN_BARS] = WithField(@, 3, Numeral(BaseClose + gap))] :
        gap \in {10 * Spread + MIN_BARS, -10 * Spread}}
      \cup {AsSeq([i \in 1..MIN_BARS |-> InvertedLine(i, CloseAt(i, 1, 1, step2))]) :
                step2 \in {-1, 1}}

\* Date texts that are no date: a letter, a month 13.
OddDates == {<<"x">>, <<"2", "0", "2", "4", "1", "3", "0", "1">>}

SeriesResponses ==
    UNION {{Klines(Series(n, turn, step1, step2, order)) :
                turn \in Turns(n), step1 \in Steps, step2 \in Steps,
                order \in {"oldest-first", "newest-first"}} : n \in SeriesLens}
      \cup {Klines(RangelessSeries(MIN_BARS, turn, step1, step2, bars)) :
                turn \in Turns(MIN_BARS), step1 \in Steps, step2 \in Steps,
                bars \in {KDJ_WINDOW, MIN_BARS}}
      \cup {Klines([Series(MIN_BARS, 1, 1, 1, "oldest-first") EXCEPT
                        ![k] = WithField(@, 1, text)]) :
                k \in {1, MIN_BARS}, text \in OddDates}
      \cup {Klines(lines) : lines \in OutOfRangeSeries}

(***************************************************************************)
(* main (src/main.py): the values of its locals before the first request,  *)
(* and the retry loops before any of them runs.                            *)
(***************************************************************************)
Unbound == [kind |-> "unbound"]       \* a local that was never assigned

MainStarts ==
    /\ at = "code prompt"
    /\ code_or_name = Unbound
    /\ stock_code = Unbound
    /\ quotes = Unbound
    /\ financial = Unbound
    /\ stock_data = Unbound
    /\ tech_data = Unbound
    /\ choice = Unbound
    /\ report = Unbound
    /\ printed = <<>>

NoLoopRuns ==
    /\ routine = ""
    /\ step = "idle"
    /\ outcomes = <<>>
    /\ retries = 0
    /\ attempt = 0
    /\ calls = 0
    /\ slept = <<>>
    /\ data = Unbound

(***************************************************************************)
(* The caller: one call at a time, each on a fresh provider response.      *)
(***************************************************************************)
MaxBetween == 1       \* invocations counted since the one the caller kept

NoEarlier == [kind |-> "NoEarlier"]

Init ==
    /\ pc = "idle"
    /\ call = ""
    /\ response = NoKlines
    /\ limit = 0
    /\ df = None
    /\ frame = NoFrame
    /\ indicators = EmptyDict
    /\ earlier = NoEarlier
    /\ MainStarts
    /\ NoLoopRuns

GetKlineData(Responses) ==
    /\ pc = "idle"
    /\ \E resp \in Responses, lmt \in 1..MaxLimit :
          /\ response' = resp
          /\ limit' = lmt
          /\ df' = get_kline_data(resp, lmt)
    /\ call' = "get_kline_data"
    /\ pc' = "returned"
    /\ UNCHANGED <<frame, indicators, earlier>>
    /\ UNCHANGED <<mainVars, retryVars>>

\* The sort is a fixed algorithm: on rows it has sorted before it leaves the
\* ties in the order it left them then.
GetTechnicalIndicators(Responses) ==
    /\ pc = "idle"
    /\ \E resp \in Responses :
          \E ties \in TieOrders(resp) :
             /\ response' = resp
             /\ frame' = TechnicalFrame(resp, ties)
             /\ (earlier.kind = "Earlier"
                   /\ earlier.bars = get_kline_data(resp, DEFAULT_LIMIT))
                    => frame' = earlier.frame
             /\ indicators' = get_technical_indicators(frame')
    /\ limit' = DEFAULT_LIMIT
    /\ call' = "get_technical_indicators"
    /\ pc' = "returned"
    /\ UNCHANGED <<df, earlier>>
    /\ UNCHANGED <<mainVars, retryVars>>

\* The result is consumed; nothing of the call is kept by the program.  The
\* caller counts the invocations made since the one it kept.
Return ==
    /\ pc = "returned"
    /\ pc' = "idle"
    /\ call' = ""
    /\ response' = NoKlines
    /\ limit' = 0
    /\ df' = None
    /\ frame' = NoFrame
    /\ indicators' = EmptyDict
    /\ earlier' = IF earlier.kind = "Earlier" /\ earlier.between < MaxBetween
                  THEN [earlier EXCEPT !.between = @ + 1]
                  ELSE earlier
    /\ UNCHANGED <<mainVars, retryVars>>

\* As Return, the caller keeping the bars and the result of the invocation
\* of get_technical_indicators that ends.
Remember ==
    /\ pc = "returned"
    /\ call = "get_technical_indicators"
    /\ earlier' = [kind |-> "Earlier",
                   bars |-> get_kline_data(response, DEFAULT_LIMIT),
                   frame |-> frame,
                   indicators |-> indicators,
                   between |-> 0]
    /\ pc' = "idle"
    /\ call' = ""
    /\ response' = NoKlines
    /\ limit' = 0
    /\ df' = None
    /\ frame' = NoFrame
    /\ indicators' = EmptyDict
    /\ UNCHANGED <<mainVars, retryVars>>

Next ==
    \/ GetKlineData(RowResponses)
    \/ GetTechnicalIndicators(RowResponses)
    \/ Return

Spec == Init /\ [][Next]_vars


(***************************************************************************)
(* The labelling step alone.  The statements of get_technical_indicators   *)
(* from "latest = df.iloc[-1]" to the return read the last two rows of the *)
(* frame only.  Here they run on frames whose last two rows hold values    *)
(* drawn from grids that contain the thresholds of the labels; the         *)
(* response that led to the frame is not part of this specification.       *)
(***************************************************************************)
PercentStep == 10     \* K, D and RSI are drawn from the multiples of PercentStep
MidClose == 1000      \* MA20 of the frames drawn, in hundredths
MaxStd == 2           \* STD20 is drawn from 0..MaxStd, in hundredths
MaxGap == 5           \* close is drawn within MaxGap of MA20, in hundredths

Percents == {k * PercentStep : k \in 0..(100 \div PercentStep)}

Whole(k) == Ratio(IntOf(k), IntOf(1))

LatestRow(date, close) ==
    [date |-> date, open |-> close, close |-> close, high |-> close, low |-> close,
     volume |-> 0, amount |-> 0, amplitude |-> 0, change_percent |-> 0,
     change_amount |-> 0, turnover |-> 0]

\* A row of the MACD columns with MACD_DEA = 0 and MACD_DIF = dif.
LatestMacd(dif) ==
    [exp1 |-> IntOf(dif), exp2 |-> Zero, MACD_DIF |-> IntOf(dif), MACD_DEA |-> Zero,
     MACD |-> Times(Minus(IntOf(dif), Zero), 2), scale |-> NatOfInt(1)]

\* A row of the KDJ columns with the given K and D.
LatestKdj(K, D) ==
    [nan |-> FALSE, RSV |-> IntOf(K), K |-> IntOf(K), D |-> IntOf(D),
     J |-> JOf(IntOf(K), IntOf(D)), scale |-> NatOfInt(1)]

LatestFrame(prev, dif, K, D, RSI, close, std) ==
    [kind  |-> "Frame",
     rows  |-> <<LatestRow(1, close), LatestRow(2, close)>>,
     macd  |-> <<LatestMacd(prev), LatestMacd(dif)>>,
     kdj   |-> <<LatestKdj(K, D), LatestKdj(K, D)>>,
     RSI   |-> Whole(RSI),
     MA20  |-> Whole(MidClose),
     VAR20 |-> Whole(std * std),
     MA5   |-> Whole(MidClose),
     MA10  |-> Whole(MidClose),
     MA30  |-> Whole(MidClose),
     MA60  |-> Whole(MidClose)]

LatestFrames ==
    {LatestFrame(prev, dif, 50, 50, 50, MidClose, 1) : prev \in -1..1, dif \in -1..1}
      \cup {LatestFrame(0, 0, K, D, 50, MidClose, 1) : K \in Percents, D \in Percents}
      \cup {LatestFrame(0, 0, 50, 50, RSI, MidClose, 1) : RSI \in Percents}
      \cup {LatestFrame(0, 0, 50, 50, 50, close, std) :
                close \in (MidClose - MaxGap)..(MidClose + MaxGap), std \in 0..MaxStd}

IndicatorsOfLatest ==
    /\ pc = "idle"
    /\ \E fr \in LatestFrames :
          /\ frame' = fr
          /\ indicators' = get_technical_indicators(fr)
    /\ call' = "latest rows"
    /\ pc' = "returned"
    /\ UNCHANGED <<response, limit, df, earlier>>
    /\ UNCHANGED <<mainVars, retryVars>>

NextLatest ==
    \/ IndicatorsOfLatest
    \/ Return

SpecLatest == Init /\ [][NextLatest]_vars

\* The caller on price histories, and the labelling step on the rows drawn.
NextSeries ==
    \/ GetKlineData(SeriesResponses)
    \/ GetTechnicalIndicators(SeriesResponses)
    \/ IndicatorsOfLatest
    \/ Return

SpecSeries == Init /\ [][NextSeries]_vars

(***************************************************************************)
(* The caller that invokes get_technical_indicators again: it keeps the    *)
(* bars and the result of an invocation and compares a later one with it.  *)
(* Its responses: histories of 20 bars in both orders of delivery, one of  *)
(* them also with a short line (skipped, the same bars), one with two bars *)
(* of the same date, one of 19 bars, and two histories in a third order.   *)
(***************************************************************************)
\* The lines of even number, then the lines of odd number.
Interleaved(lines) ==
    LET half == Len(lines) \div 2
    IN  AsSeq([j \in 1..Len(lines) |->
                  IF j <= half THEN lines[2 * j] ELSE lines[2 * (j - half) - 1]])

TwiceResponses ==
    {Klines(Series(MIN_BARS, 1, step1, step2, order)) :
         step1 \in {-1, 1}, step2 \in {-1, 1}, order \in {"oldest-first", "newest-first"}}
      \cup {Klines(Append(Series(MIN_BARS, 1, 1, 1, "oldest-first"), <<<<"x">>>>)),
            Klines([Series(MIN_BARS, 1, 1, -1, "oldest-first") EXCEPT
                       ![MIN_BARS] = WithField(@, 1, DateText(MIN_BARS - 1))]),
            Klines(Series(MIN_BARS - 1, 1, 1, 1, "oldest-first"))}
      \cup {Klines(Interleaved(Series(MIN_BARS, 1, 1, step2, "oldest-first"))) :
                step2 \in {-1, 1}}

NextTwice ==
    \/ GetKlineData(TwiceResponses)
    \/ GetTechnicalIndicators(TwiceResponses)
    \/ Return
    \/ Remember

SpecTwice == Init /\ [][NextTwice]_vars

(***************************************************************************)
(* The caller of StockDataFetcher.get_technical_indicators.  Its histories *)
(* are written in whole units (the fetcher divides no field): the close    *)
(* starts at FetcherBase and moves by step1 per bar up to the turn, then   *)
(* by step2; high and low lie spread above and below the close, and the    *)
(* spread 0 gives bars of no range.                                        *)
(***************************************************************************)
FetcherBase == 60     \* close of the first bar, in whole units
MaxMove == 2          \* largest move per bar, in whole units
FetcherSpread == 1    \* high - close and close - low of the bars with a range

FetcherCloseAt(i, turn, step1, step2) ==
    IF i <= turn + 1 THEN FetcherBase + (i - 1) * step1
    ELSE FetcherBase + turn * step1 + (i - 1 - turn) * step2

FetcherLine(i, c, spread) ==
    <<DateText(i), Numeral(c), Numeral(c), Numeral(c + spread), Numeral(c - spread),
      Numeral(900 + i), <<"5", "0", "0", "0">>, <<"3">>, Numeral(i), <<"1">>,
      Numeral(2 + i)>>

FetcherSeries(n, turn, step1, step2, spread) ==
    AsSeq([i \in 1..n |-> FetcherLine(i, FetcherCloseAt(i, turn, step1, step2), spread)])

FetcherResponses ==
    {NoKlines, Klines(<<>>)}
      \cup UNION {{Klines(FetcherSeries(n, turn, step1, step2, spread)) :
                      turn \in Turns(n), step1 \in -MaxMove..MaxMove,
                      step2 \in -MaxMove..MaxMove, spread \in {0, FetcherSpread}} :
                  n \in {MIN_BARS - 1, MIN_BARS}}
      \cup {Klines([FetcherSeries(MIN_BARS, 1, 0, 0, FetcherSpread) EXCEPT
                        ![MIN_BARS] = WithField(@, k, <<>>)]) : k \in {3, FIELD_COUNT}}
      \cup {Klines([FetcherSeries(MIN_BARS, 1, 0, 0, FetcherSpread) EXCEPT
                        ![1] = SubSeq(@, 1, FIELD_COUNT - 1)])}

FetcherGetTechnicalIndicators ==
    /\ pc = "idle"
    /\ \E resp \in FetcherResponses :
          /\ response' = resp
          /\ frame' = FetcherFrame(resp)
          /\ indicators' = StockDataFetcher_get_technical_indicators(frame')
    /\ limit' = DEFAULT_LIMIT
    /\ call' = "StockDataFetcher.get_technical_indicators"
    /\ pc' = "returned"
    /\ UNCHANGED <<df, earlier>>
    /\ UNCHANGED <<mainVars, retryVars>>

NextFetcher ==
    \/ FetcherGetTechnicalIndicators
    \/ Return

SpecFetcher == Init /\ [][NextFetcher]_vars

(***************************************************************************)
(* fetch_data_with_retry (src/main.py).  The callable is the sequence of   *)
(* what its successive calls do: return a value, raise a                   *)
(* requests.RequestException, or raise another Exception.                  *)
(***************************************************************************)
MAX_RETRIES == 3      \* MAX_RETRIES = 3
RETRY_DELAY == 5      \* RETRY_DELAY = 5

Returns(v) == [kind |-> "returns", value |-> v]
Raises(e) == [kind |-> "raises", exception |-> e]

\* A callable that does the same on every call.
Always(outcome) == [k \in 1..MAX_RETRIES |-> outcome]

\* Faulty variant of MayRetry: one call more.
MayRetryOnceMore(n) == n <= MAX_RETRIES

\* while retries < MAX_RETRIES
MayRetry(n) == n < MAX_RETRIES

\* The while loop entered with the given value of retries; func has been
\* called once per network exception caught, so the next call is number
\* n + 1.
RECURSIVE RetryFrom(_, _)
RetryFrom(func, n) ==
    IF ~MayRetry(n) THEN None
    ELSE LET outcome == func[n + 1]
         IN  IF outcome.kind = "returns" THEN outcome.value
             ELSE IF outcome.exception = "RequestException" THEN RetryFrom(func, n + 1)
             ELSE None

fetch_data_with_retry(func) == RetryFrom(func, 0)

(***************************************************************************)
(* main (src/main.py).  A dict is a function from its keys; a float is a   *)
(* count of hundredths.  One action runs main from a call of input() to    *)
(* the next one.                                                           *)
(***************************************************************************)
WhiteChars == {" ", "\t"}

RECURSIVE lstrip(_)
lstrip(s) == IF Len(s) > 0 /\ Head(s) \in WhiteChars THEN lstrip(Tail(s)) ELSE s

RECURSIVE rstrip(_)
rstrip(s) ==
    IF Len(s) > 0 /\ s[Len(s)] \in WhiteChars THEN rstrip(SubSeq(s, 1, Len(s) - 1)) ELSE s

strip(s) == rstrip(lstrip(s))

\* str.lower() on the letters the inputs are written with.
LowerChar(c) ==
    CASE c = "Q" -> "q"
      [] c = "S" -> "s"
      [] c = "H" -> "h"
      [] c = "Z" -> "z"
      [] OTHER   -> c

lower(s) == [k \in 1..Len(s) |-> LowerChar(s[k])]

isdigit(s) == Len(s) > 0 /\ \A k \in 1..Len(s) : s[k] \in DigitChars

startswith(s, prefixes) ==
    \E p \in prefixes : Len(s) >= Len(p) /\ SubSeq(s, 1, Len(p)) = p

SH_PREFIXES ==
    {<<"6", "0", "0">>, <<"6", "0", "1">>, <<"6", "0", "3">>, <<"6", "0", "5">>,
     <<"6", "8", "8">>}
SZ_PREFIXES ==
    {<<"0", "0", "0">>, <<"0", "0", "2">>, <<"3", "0", "0">>, <<"3", "0", "1">>}

InvalidCode == [kind |-> "invalid"]

\* Lines 53-62: the stock code of the request, or InvalidCode.
format_code(code) ==
    IF isdigit(code)
    THEN IF startswith(code, SH_PREFIXES) THEN <<"s", "h">> \o code
         ELSE IF startswith(code, SZ_PREFIXES) THEN <<"s", "z">> \o code
         ELSE InvalidCode
    ELSE code

\* dict.get, dict.update and truth of a value that is a dict or None.
get(d, key, default) == IF key \in DOMAIN d THEN d[key] ELSE default

update(d, other) ==
    [k \in DOMAIN d \cup DOMAIN other |-> IF k \in DOMAIN other THEN other[k] ELSE d[k]]

Falsy(v) == DOMAIN v = {} \/ v = None

(***************************************************************************)
(* EastMoneyAPI.get_realtime_quotes.  The provider's answer is one of:     *)
(* the request or the decoding raises; the JSON has no 'data' key; 'data'  *)
(* is null; a price field holds a text (the division raises); or 'data'    *)
(* holds the fields.  A field the provider sends is a count of hundredths; *)
(* the division by 100 gives the float the count stands for.               *)
(***************************************************************************)
QuoteData(f43, f45, f47, f61) ==
    [kind |-> "data", f43 |-> f43, f44 |-> 0, f45 |-> f45, f46 |-> f43, f47 |-> f47,
     f48 |-> 0, f49 |-> 0, f58 |-> "name", f60 |-> f43, f61 |-> f61]

get_realtime_quotes(answer) ==
    IF answer.kind # "data" THEN EmptyDict
    ELSE [name           |-> answer.f58,
          price          |-> answer.f43,
          change_amount  |-> answer.f44,
          change_percent |-> answer.f45,
          volume         |-> answer.f47 * Unit,
          amount         |-> answer.f48 * Unit,
          amplitude      |-> answer.f49,
          high           |-> answer.f44,
          low            |-> answer.f45,
          open           |-> answer.f46,
          prev_close     |-> answer.f60,
          turnover       |-> answer.f61,
          update_time    |-> "now"]

(***************************************************************************)
(* EastMoneyAPI.get_financial_indicators returns the dict extracted from   *)
(* the provider's answer, {} when the extraction raises, or the dict of    *)
(* _generate_dummy_financial_data, whose values are drawn at random.       *)
(***************************************************************************)
Extracted(pe, pb, roe, margin) ==
    [pe_ttm |-> pe, pb |-> pb, roe |-> roe, debt_ratio |-> 0, gross_margin |-> margin,
     net_profit_margin |-> 0, total_assets |-> 0, revenue |-> 0, net_profit |-> 0,
     total_share |-> 100, float_share |-> 50, dividend_yield |-> 0,
     industry |-> "industry"]

Dummy(code, name, pe, pb, roe, margin, growth) ==
    update(Extracted(pe, pb, roe, margin),
           [name |-> name, ts_code |-> code, profit_growth |-> growth,
            revenue_growth |-> growth])

\* Lines 72-93: the dict main builds from the quotes.
BasicStockData(code, q) ==
    [ts_code |-> code,
     name |-> get(q, "name", code),
     price |-> get(q, "price", 0),
     change_percent |-> get(q, "change_percent", 0),
     pe_ttm |-> 0, pb |-> 0, roe |-> 0, debt_ratio |-> 0, gross_margin |-> 0,
     net_profit_margin |-> 0, total_assets |-> 0, revenue |-> 0, net_profit |-> 0,
     total_share |-> 0, float_share |-> 0, total_shares |-> 0, float_shares |-> 0,
     dividend_yield |-> 0, industry |-> "unknown"]

\* Lines 98-106.
WithFinancial(sd, fin) ==
    IF Falsy(fin) THEN sd
    ELSE LET merged == update(sd, fin)
             shares == IF "total_share" \in DOMAIN fin /\ "total_shares" \notin DOMAIN fin
                       THEN [merged EXCEPT !["total_shares"] = fin["total_share"]]
                       ELSE merged
         IN  IF "float_share" \in DOMAIN fin /\ "float_shares" \notin DOMAIN fin
             THEN [shares EXCEPT !["float_shares"] = fin["float_share"]]
             ELSE shares

\* Lines 132, 216-218: stock_data after the indicators were fetched.
WithIndicators(sd, tech) == IF Falsy(tech) THEN sd ELSE update(sd, tech)

(***************************************************************************)
(* QuantAgent (src/investment_agents.py).  The report is the record of the *)
(* values its text is written from.                                        *)
(***************************************************************************)
calculate_valuation_score(pe, pb) ==
    IF pe < 10 * Unit /\ pb < 1 * Unit THEN 4
    ELSE IF pe < 15 * Unit /\ 2 * pb < 3 * Unit THEN 3
    ELSE IF pe < 20 * Unit /\ pb < 2 * Unit THEN 2
    ELSE 1

\* Faulty variant of calculate_growth_score: 0 where no growth is found.
calculate_growth_score_zero(revenue_growth, profit_growth) ==
    IF revenue_growth > 20 * Unit /\ profit_growth > 20 * Unit THEN 4
    ELSE IF revenue_growth > 10 * Unit /\ profit_growth > 10 * Unit THEN 3
    ELSE IF revenue_growth > 0 /\ profit_growth > 0 THEN 2
    ELSE 0

calculate_growth_score(revenue_growth, profit_growth) ==
    IF revenue_growth > 20 * Unit /\ profit_growth > 20 * Unit THEN 4
    ELSE IF revenue_growth > 10 * Unit /\ profit_growth > 10 * Unit THEN 3
    ELSE IF revenue_growth > 0 /\ profit_growth > 0 THEN 2
    ELSE 1

calculate_quality_score(roe, gross_margin) ==
    IF roe > 20 * Unit /\ gross_margin > 40 * Unit THEN 4
    ELSE IF roe > 15 * Unit /\ gross_margin > 30 * Unit THEN 3
    ELSE IF roe > 10 * Unit /\ gross_margin > 20 * Unit THEN 2
    ELSE 1

calculate_liquidity_score(volume, turnover) ==
    IF volume > 1000000 * Unit /\ turnover > 5 * Unit THEN 4
    ELSE IF volume > 500000 * Unit /\ turnover > 3 * Unit THEN 3
    ELSE IF volume > 100000 * Unit /\ turnover > 1 * Unit THEN 2
    ELSE 1

calculate_factor_scores(sd) ==
    [valuation |-> calculate_valuation_score(get(sd, "pe_ttm", 0), get(sd, "pb", 0)),
     growth    |-> calculate_growth_score(get(sd, "revenue_growth", 0),
                                          get(sd, "profit_growth", 0)),
     quality   |-> calculate_quality_score(get(sd, "roe", 0), get(sd, "gross_margin", 0)),
     liquidity |-> calculate_liquidity_score(get(sd, "volume", 0), get(sd, "turnover", 0))]

generate_investment_advice(overall_score) ==
    IF overall_score >= 12 THEN "strong buy"
    ELSE IF overall_score >= 8 THEN "buy"
    ELSE IF overall_score >= 4 THEN "hold"
    ELSE "sell"

QuantAgent_analyze(sd) ==
    LET factor_scores == calculate_factor_scores(sd)
        overall_score == factor_scores.valuation + factor_scores.growth
                             + factor_scores.quality + factor_scores.liquidity
    IN  [kind |-> "report", strategy |-> "quantitative_trading",
         factor_scores |-> factor_scores,
         overall_score |-> overall_score,
         investment_advice |-> generate_investment_advice(overall_score)]

(***************************************************************************)
(* The inputs of main: the texts typed, the provider's answers, and what   *)
(* the agents other than QuantAgent do (their reports are written from     *)
(* random draws; AIAnalyzer.analyze_stock returns None where it fails, the *)
(* analyze methods of the others raise).                                   *)
(***************************************************************************)
CodeInputs ==
    {<<"q">>, <<" ", "Q", " ">>,
     <<"6", "0", "0", "0", "0", "0">>, <<"0", "0", "0", "0", "0", "1", " ">>,
     <<"1", "2", "3", "4", "5", "6">>, <<"s", "h", "6", "0", "0", "0", "0", "0">>}

ChoiceInputs == {<<>>, <<"1">>, <<" ", "2">>, <<"5">>, <<"9">>}

AgentKeys == {<<"1">>, <<"2">>, <<"3">>, <<"4">>, <<"5">>}

AgentOutcomes == {"report", "fails"}

QuoteAnswers ==
    {[kind |-> "raises"], [kind |-> "no data"], [kind |-> "null data"],
     [kind |-> "text field"], QuoteData(1234, 150, 2000000, 600)}

\* What get_financial_indicators can return for the request.
FinancialResults(code, q) ==
    <<EmptyDict,
      Extracted(9 * Unit, 90, 21 * Unit, 41 * Unit),
      Dummy(code, get(q, "name", ""), 14 * Unit, 140, 16 * Unit, 31 * Unit, 11 * Unit)>>

\* The price histories the provider answers the indicator request with.
MainKlines ==
    <<NoKlines,
      Klines(Series(MIN_BARS - 1, 1, 1, 1, "oldest-first")),
      Klines(Series(MIN_BARS, 1, 1, -1, "newest-first"))>>

TechResults ==
    AsSeq([k \in 1..Len(MainKlines) |->
              get_technical_indicators(TechnicalFrame(MainKlines[k], "kept"))])

ValidCode(code) == isdigit(code) => startswith(code, SH_PREFIXES \cup SZ_PREFIXES)

\* Faulty variant of AfterIndicators: a request without indicators is given
\* up, as a request without quotes is.
AfterIndicatorsGivenUp(tech) ==
    IF Falsy(tech) THEN [at |-> "code prompt", printed |-> <<"indicators unavailable">>]
    ELSE [at |-> "choice prompt", printed |-> <<"indicators", "analysis menu">>]

\* Lines 132-227: what main prints once the indicators were fetched, and the
\* call of input() it reaches.
AfterIndicators(tech) ==
    [at |-> "choice prompt",
     printed |-> IF Falsy(tech) THEN <<"indicators unavailable", "analysis menu">>
                 ELSE <<"indicators", "analysis menu">>]

\* From the stock-code prompt to the next call of input(), or to the end.
ReadCode ==
    /\ at = "code prompt"
    /\ \/ \* input() raises EOFError; line 46 is outside the try statement
          /\ at' = "crashed"
          /\ printed' = <<>>
          /\ UNCHANGED <<code_or_name, stock_code, quotes, financial, stock_data,
                         tech_data>>
       \/ \E text \in CodeInputs :
             /\ code_or_name' = strip(text)
             /\ IF lower(code_or_name') = <<"q">>
                THEN /\ at' = "exited"
                     /\ printed' = <<"exit">>
                     /\ UNCHANGED <<stock_code, quotes, financial, stock_data, tech_data>>
                ELSE IF ~ValidCode(code_or_name')
                THEN /\ at' = "code prompt"
                     /\ printed' = <<"invalid code">>
                     /\ UNCHANGED <<stock_code, quotes, financial, stock_data, tech_data>>
                ELSE \E answer \in QuoteAnswers :
                        /\ stock_code' = format_code(code_or_name')
                        /\ quotes' = fetch_data_with_retry(
                                         Always(Returns(get_realtime_quotes(answer))))
                        /\ IF Falsy(quotes')
                           THEN /\ at' = "code prompt"
                                /\ printed' = <<"fetching data", "quotes failed">>
                                /\ UNCHANGED <<financial, stock_data, tech_data>>
                           ELSE \E f \in 1..Len(FinancialResults(stock_code', quotes')),
                                   t \in 1..Len(TechResults) :
                                   LET fin  == FinancialResults(stock_code', quotes')[f]
                                       then == AfterIndicators(tech_data')
                                   IN  /\ financial' =
                                             fetch_data_with_retry(Always(Returns(fin)))
                                       /\ tech_data' =
                                             fetch_data_with_retry(
                                                 Always(Returns(TechResults[t])))
                                       /\ stock_data' =
                                             WithIndicators(
                                                 WithFinancial(
                                                     BasicStockData(stock_code', quotes'),
                                                     financial'),
                                                 tech_data')
                                       /\ printed' =
                                             <<"fetching data", "fetching financial",
                                               IF Falsy(financial')
                                               THEN "financial defaults"
                                               ELSE "financial",
                                               "basic info", "fetching indicators">>
                                                 \o then.printed
                                       /\ at' = then.at
    /\ UNCHANGED <<choice, report>>
    /\ UNCHANGED <<klineVars, retryVars>>

\* self.strategy of the agents, and a name for the analyser that has none.
Strategy(key) ==
    CASE key = <<"1">> -> "quantitative_trading"
      [] key = <<"2">> -> "lynch_growth"
      [] key = <<"3">> -> "short_term_trading"
      [] key = <<"4">> -> "value_investment"
      [] OTHER         -> "ai"

AgentReport(key) == [kind |-> "report", strategy |-> Strategy(key)]

\* Lines 229-248: the value agents[choice] returns, or the exception raised.
analysis(chosen, sd, outcome) ==
    IF chosen \notin AgentKeys THEN Raises("KeyError")
    ELSE IF chosen = <<"5">>
    THEN Returns(IF outcome = "report" THEN AgentReport(chosen) ELSE None)
    ELSE IF chosen = <<"1">> THEN Returns(QuantAgent_analyze(sd))
    ELSE IF outcome = "report" THEN Returns(AgentReport(chosen))
    ELSE Raises("Exception")

\* From the analysis-type prompt back to the stock-code prompt.
ReadChoice ==
    /\ at = "choice prompt"
    /\ \/ \* input() raises EOFError, caught at line 253
          /\ printed' = <<"error">>
          /\ UNCHANGED <<choice, report>>
       \/ \E text \in ChoiceInputs, outcome \in AgentOutcomes :
             LET chosen == IF Len(strip(text)) = 0 THEN <<"1">> ELSE strip(text)
                 result == analysis(chosen, stock_data, outcome)
             IN  /\ choice' = chosen
                 /\ IF result.kind = "raises"
                    THEN /\ printed' = <<"analysis error">>
                         /\ UNCHANGED report
                    ELSE /\ printed' = <<"report">>
                         /\ report' = result.value
    /\ at' = "code prompt"
    /\ UNCHANGED <<code_or_name, stock_code, quotes, financial, stock_data, tech_data>>
    /\ UNCHANGED <<klineVars, retryVars>>

NextMain ==
    \/ ReadCode
    \/ ReadChoice

SpecMain == Init /\ [][NextMain]_vars

(***************************************************************************)
(* QuantAgent.analyze on its own.  Each factor reads two numbers; the      *)
(* pairs drawn lie on both sides of every threshold and on the thresholds  *)
(* themselves (floats in hundredths).                                      *)
(***************************************************************************)
ValuationInputs ==
    {<<-5 * Unit, Unit \div 2>>, <<0, 0>>, <<10 * Unit - 1, Unit - 1>>,
     <<10 * Unit, Unit - 1>>, <<15 * Unit - 1, Unit>>, <<15 * Unit, (3 * Unit) \div 2>>,
     <<20 * Unit - 1, 2 * Unit - 1>>, <<20 * Unit, 2 * Unit>>, <<10 * Unit - 1, 3 * Unit>>}

GrowthInputs ==
    {<<-10 * Unit, 30 * Unit>>, <<0, 0>>, <<1, 1>>, <<10 * Unit, 10 * Unit>>,
     <<10 * Unit + 1, 10 * Unit + 1>>, <<20 * Unit, 20 * Unit + 1>>,
     <<20 * Unit + 1, 20 * Unit + 1>>}

QualityInputs ==
    {<<0, 0>>, <<10 * Unit, 20 * Unit + 1>>, <<10 * Unit + 1, 20 * Unit + 1>>,
     <<15 * Unit + 1, 30 * Unit>>, <<15 * Unit + 1, 30 * Unit + 1>>,
     <<20 * Unit + 1, 40 * Unit>>, <<20 * Unit + 1, 40 * Unit + 1>>}

LiquidityInputs ==
    {<<0, 0>>, <<100000 * Unit, Unit + 1>>, <<100000 * Unit + 1, Unit + 1>>,
     <<500000 * Unit + 1, 3 * Unit>>, <<500000 * Unit + 1, 3 * Unit + 1>>,
     <<1000000 * Unit, 5 * Unit + 1>>, <<1000000 * Unit + 1, 5 * Unit + 1>>}

\* agents["1"].analyze(stock_data) on a dict holding the eight numbers.
QuantAnalyze ==
    /\ report = Unbound
    /\ \E v \in ValuationInputs, g \in GrowthInputs, q \in QualityInputs,
          l \in LiquidityInputs :
          /\ stock_data' = [pe_ttm |-> v[1], pb |-> v[2],
                            revenue_growth |-> g[1], profit_growth |-> g[2],
                            roe |-> q[1], gross_margin |-> q[2],
                            volume |-> l[1], turnover |-> l[2]]
          /\ report' = QuantAgent_analyze(stock_data')
    /\ choice' = <<"1">>
    /\ UNCHANGED <<at, code_or_name, stock_code, quotes, financial, tech_data, printed>>
    /\ UNCHANGED <<klineVars, retryVars>>

\* The report is taken; the next dict is a new one.
QuantReturn ==
    /\ report # Unbound
    /\ stock_data' = Unbound
    /\ report' = Unbound
    /\ choice' = Unbound
    /\ UNCHANGED <<at, code_or_name, stock_code, quotes, financial, tech_data, printed>>
    /\ UNCHANGED <<klineVars, retryVars>>

NextQuant ==
    \/ QuantAnalyze
    \/ QuantReturn

SpecQuant == Init /\ [][NextQuant]_vars

(***************************************************************************)
(* The retry loops, one iteration per step: fetch_data_with_retry          *)
(* (src/main.py) and StockDataFetcher._make_request (src/data_fetcher.py). *)
(* The environment is the sequence of what the successive calls of func,   *)
(* or the successive HTTP attempts, do; it is one longer than the loops    *)
(* are allowed to run.  A value returned is None or a record naming it.    *)
(***************************************************************************)
RETRY_COUNT == 3      \* self.retry_count = 3

Dict == [kind |-> "dict"]
NoEntries == [kind |-> "empty dict"]

\* What a call of func does.
CallOutcomes ==
    {Returns(Dict), Returns(NoEntries), Returns(None),
     Raises("RequestException"), Raises("Exception")}

\* What an HTTP attempt does: response.json() returns (a JSON null gives
\* None); session.get, raise_for_status or the decoding raise a
\* requests.RequestException; the decoding raises another exception.
AttemptOutcomes ==
    {Returns(Dict), Returns(None), Raises("RequestException"), Raises("Exception")}

FetchStart ==
    /\ step = "idle"
    /\ \E func \in [1..(MAX_RETRIES + 1) -> CallOutcomes] : outcomes' = AsSeq(func)
    /\ routine' = "fetch_data_with_retry"
    /\ step' = "loop"
    /\ retries' = 0
    /\ calls' = 0
    /\ slept' = <<>>
    /\ data' = Unbound
    /\ UNCHANGED attempt
    /\ UNCHANGED <<klineVars, mainVars>>

\* One iteration of the while loop: lines 259-269.
FetchIterate ==
    /\ routine = "fetch_data_with_retry"
    /\ step = "loop"
    /\ MayRetry(retries)
    /\ calls' = calls + 1
    /\ LET outcome == outcomes[calls + 1]
       IN  IF outcome.kind = "returns"
           THEN /\ data' = outcome.value
                /\ step' = "returned"
                /\ UNCHANGED <<retries, slept>>
           ELSE IF outcome.exception = "RequestException"
           THEN /\ retries' = retries + 1
                /\ slept' = Append(slept, RETRY_DELAY)
                /\ UNCHANGED <<step, data>>
           ELSE /\ data' = None
                /\ step' = "returned"
                /\ UNCHANGED <<retries, slept>>
    /\ UNCHANGED <<routine, outcomes, attempt>>
    /\ UNCHANGED <<klineVars, mainVars>>

\* The loop condition fails: line 270.
FetchExhausted ==
    /\ routine = "fetch_data_with_retry"
    /\ step = "loop"
    /\ ~MayRetry(retries)
    /\ data' = None
    /\ step' = "returned"
    /\ UNCHANGED <<routine, outcomes, retries, attempt, calls, slept>>
    /\ UNCHANGED <<klineVars, mainVars>>

\* Faulty variant of Backoff: the first wait is 2 seconds.
BackoffFromTwo(k) == 2 ^ (k + 1)

\* time.sleep(2 ** i)
Backoff(k) == 2 ^ k

RequestStart ==
    /\ step = "idle"
    /\ \E tries \in [1..(RETRY_COUNT + 1) -> AttemptOutcomes] : outcomes' = AsSeq(tries)
    /\ routine' = "_make_request"
    /\ step' = "loop"
    /\ attempt' = 0
    /\ calls' = 0
    /\ slept' = <<>>
    /\ data' = Unbound
    /\ UNCHANGED retries
    /\ UNCHANGED <<klineVars, mainVars>>

\* One iteration of "for i in range(self.retry_count)": lines 46-53.
RequestAttempt ==
    /\ routine = "_make_request"
    /\ step = "loop"
    /\ attempt < RETRY_COUNT
    /\ calls' = calls + 1
    /\ LET outcome == outcomes[calls + 1]
       IN  IF outcome.kind = "returns"
           THEN /\ data' = outcome.value
                /\ step' = "returned"
                /\ UNCHANGED <<attempt, slept>>
           ELSE IF outcome.exception = "RequestException"
           THEN /\ slept' = Append(slept, Backoff(attempt))
                /\ attempt' = attempt + 1
                /\ UNCHANGED <<step, data>>
           ELSE /\ data' = outcome
                /\ step' = "raised"
                /\ UNCHANGED <<attempt, slept>>
    /\ UNCHANGED <<routine, outcomes, retries>>
    /\ UNCHANGED <<klineVars, mainVars>>

\* The range is used up: lines 54-55.
RequestExhausted ==
    /\ routine = "_make_request"
    /\ step = "loop"
    /\ attempt >= RETRY_COUNT
    /\ data' = None
    /\ step' = "returned"
    /\ UNCHANGED <<routine, outcomes, retries, attempt, calls, slept>>
    /\ UNCHANGED <<klineVars, mainVars>>

\* The caller takes the value (or the exception); nothing of the call stays.
LoopReturn ==
    /\ step \in {"returned", "raised"}
    /\ routine' = ""
    /\ step' = "idle"
    /\ outcomes' = <<>>
    /\ retries' = 0
    /\ attempt' = 0
    /\ calls' = 0
    /\ slept' = <<>>
    /\ data' = Unbound
    /\ UNCHANGED <<klineVars, mainVars>>

NextRetry ==
    \/ FetchStart
    \/ FetchIterate
    \/ FetchExhausted
    \/ RequestStart
    \/ RequestAttempt
    \/ RequestExhausted
    \/ LoopReturn

SpecRetry == Init /\ [][NextRetry]_vars

\* A function that runs goes on running: each loop takes its next step.
SpecRetryFair ==
    /\ SpecRetry
    /\ WF_vars(FetchIterate)
    /\ WF_vars(FetchExhausted)
    /\ WF_vars(RequestAttempt)
    /\ WF_vars(RequestExhausted)

(***************************************************************************)
(* The claims.  Every claim reads the state left by one call: the provider *)
(* response, the limit passed, and the value returned.                     *)
(***************************************************************************)
Called(name) == pc = "returned" /\ call = name

\* The rows of the value returned by get_kline_data (none when it is None).
Bars == IF df.kind = "DataFrame" THEN df.rows ELSE <<>>

\* The lines of the provider response (none when 'klines' is missing).
Lines == IF response.kind = "Klines" THEN response.lines ELSE <<>>

\* A number as the provider writes it: digits after an optional "-".
IsNumber(s) ==
    LET digits == IF s # <<>> /\ s[1] = "-" THEN Tail(s) ELSE s
    IN  digits # <<>> /\ \A i \in 1..Len(digits) : digits[i] \in DigitChars

\* The value of such a number.
RawValue(s) == IF s[1] = "-" THEN -NatOf(Tail(s)) ELSE NatOf(s)

\* A date as the provider writes it: eight digits YYYYMMDD, the month from
\* 01 to 12 and the day from 01 to 31.
IsDate(s) ==
    /\ Len(s) = 8
    /\ \A i \in 1..8 : s[i] \in DigitChars
    /\ (NatOf(<<s[5], s[6]>>) - 1) \in 0..11
    /\ (NatOf(<<s[7], s[8]>>) - 1) \in 0..30

\* The columns of a bar in the order of the wire.
WireOrder ==
    <<"date", "open", "close", "high", "low", "volume", "amount", "amplitude",
      "change_percent", "change_amount", "turnover">>

\* A raw row with 11 numeric fields / a valid raw row.
NumericRow(items) == Len(items) = 11 /\ \A k \in 2..11 : IsNumber(items[k])
ValidRow(items) == NumericRow(items) /\ IsDate(items[1])

\* A raw row that parses: 11 fields or more, the ten numeric ones each empty
\* or a number.
Parses(items) ==
    Len(items) >= 11 /\ \A k \in 2..11 : items[k] = <<>> \/ IsNumber(items[k])

\* The bar holds the fields of the row in the order of the wire: an empty
\* field as 0, volume and amount unscaled, the others divided by 100.
BarMatches(bar, items) ==
    /\ bar.date = items[1]
    /\ \A k \in 2..11 :
          LET raw == IF items[k] = <<>> THEN 0 ELSE RawValue(items[k])
              col == WireOrder[k]
          IN  IF col \in {"volume", "amount"}
              THEN bar[col] = raw * Unit
              ELSE bar[col] * 100 = raw * Unit

\* C1: get_technical_indicators on fewer than 20 well-formed bars returns
\* the empty result, with no partial output; on 20 bars or more it returns
\* a dict holding every group MACD, KDJ, RSI, BOLL, MA and price_data.
C1_MinimumBars ==
    Called("get_technical_indicators") /\ (\A i \in 1..Len(Lines) : ValidRow(Lines[i]))
        => IF Len(Lines) < 20
           THEN DOMAIN indicators = {}
           ELSE {"MACD", "KDJ", "RSI", "BOLL", "MA", "price_data"} \subseteq DOMAIN indicators

\* C1, its case: a history of exactly 20 bars gave the six groups.
C1_Witness ==
    /\ Called("get_technical_indicators")
    /\ Len(Lines) = 20
    /\ \A i \in 1..Len(Lines) : ValidRow(Lines[i])
    /\ DOMAIN indicators = {"MACD", "KDJ", "RSI", "BOLL", "MA", "price_data"}

\* C2, as stated: for valid raw rows in any order and with any repetition
\* of dates, the bars returned by get_kline_data are strictly ascending by
\* date, so no two bars have the same date.
C2_StrictlyAscending ==
    Called("get_kline_data") /\ (\A i \in 1..Len(Lines) : ValidRow(Lines[i]))
        => \A i, j \in 1..Len(Bars) :
              i < j => NatOf(Bars[i].date) < NatOf(Bars[j].date)

\* C3: for raw rows with 11 numeric fields, get_kline_data produces one bar
\* per row with open, close, high, low, amplitude, change_percent,
\* change_amount and turnover equal to the raw field divided by 100, volume
\* and amount equal to the raw field, the fields taken in the wire order.
C3_FieldScaling ==
    Called("get_kline_data") /\ Lines # <<>>
      /\ (\A i \in 1..Len(Lines) : NumericRow(Lines[i]))
        => /\ Len(Bars) = Len(Lines)
           /\ \A i \in 1..Len(Lines) : BarMatches(Bars[i], Lines[i])

\* C3, its case: two rows of distinct numbers became two bars; the raw
\* open 1001 is the price 10.01 and the raw volume 50001 is 50001.
C3_Witness ==
    /\ Called("get_kline_data")
    /\ Len(Lines) = 2
    /\ \A i \in 1..2 : NumericRow(Lines[i])
    /\ Lines[1][2] = <<"1", "0", "0", "1">> /\ Lines[1][6] = <<"5", "0", "0", "0", "1">>
    /\ Len(Bars) = 2
    /\ Bars[1].open * 100 = 1001 * Unit
    /\ Bars[1].volume = 50001 * Unit

\* C4: a row with at least 11 fields in which a numeric field is empty is
\* kept; each empty numeric field is 0 in the bar and the other fields of
\* the row are parsed as usual.
C4_EmptyFieldIsZero ==
    Called("get_kline_data")
      /\ (\A i \in 1..Len(Lines) : Parses(Lines[i]))
      /\ (\E i \in 1..Len(Lines) : \E k \in 2..11 : Lines[i][k] = <<>>)
        => /\ Len(Bars) = Len(Lines)
           /\ \A i \in 1..Len(Lines) :
                 /\ BarMatches(Bars[i], Lines[i])
                 /\ \A k \in 2..11 : Lines[i][k] = <<>> => Bars[i][WireOrder[k]] = 0

\* C4, its case: a row with an empty volume between two full rows.
C4_Witness ==
    /\ Called("get_kline_data")
    /\ Len(Lines) = 3
    /\ NumericRow(Lines[1]) /\ NumericRow(Lines[3])
    /\ Len(Lines[2]) = 11 /\ Lines[2][6] = <<>> /\ Lines[2][7] # <<>>
    /\ Len(Bars) = 3
    /\ Bars[2].volume = 0 /\ Bars[2].amount > 0

\* C5, as stated: a raw row is skipped only when it has fewer than 11
\* fields; every row with 11 fields or more, whatever its fields hold,
\* yields exactly one bar.
C5_SkippedOnlyWhenShort ==
    Called("get_kline_data")
        => Len(Bars) = Cardinality({i \in 1..Len(Lines) : Len(Lines[i]) >= 11})

\* C5, amended: a raw row is skipped exactly when it has fewer than 11
\* fields or one of its ten numeric fields is neither empty nor a number;
\* every other row yields exactly one bar.
C5_SkippedWhenShortOrMalformed ==
    Called("get_kline_data")
        => Len(Bars) = Cardinality({i \in 1..Len(Lines) : Parses(Lines[i])})

\* C5, its case: a row of 11 fields with a malformed number was skipped and
\* the full row beside it was kept.
C5_Witness ==
    /\ Called("get_kline_data")
    /\ Len(Lines) = 2
    /\ NumericRow(Lines[1])
    /\ Len(Lines[2]) = 11 /\ ~Parses(Lines[2])
    /\ Len(Bars) = 1

\* C6: a rejected row never aborts get_kline_data: the bars returned are
\* the rows that parse, all of them, in the order of the input, whatever
\* rejected rows precede, follow or separate them.
C6_SkipAndContinue ==
    Called("get_kline_data")
        => LET kept == SelectSeq(Lines, Parses)
           IN  /\ Len(Bars) = Len(kept)
               /\ \A j \in 1..Len(kept) : BarMatches(Bars[j], kept[j])

\* C6, its case: a rejected row between two distinct rows that parse.
C6_Witness ==
    /\ Called("get_kline_data")
    /\ Len(Lines) = 3
    /\ Parses(Lines[1]) /\ ~Parses(Lines[2]) /\ Parses(Lines[3])
    /\ Lines[1][1] # Lines[3][1]
    /\ Len(Bars) = 2
    /\ Bars[1].date = Lines[1][1] /\ Bars[2].date = Lines[3][1]

\* C7: when the response has no rows, or no row survives the parse,
\* get_kline_data returns None and get_technical_indicators returns the
\* empty dict.
C7_NoData ==
    (\A i \in 1..Len(Lines) : ~Parses(Lines[i]))
        => /\ Called("get_kline_data") => df = None
           /\ Called("get_technical_indicators") => DOMAIN indicators = {}

\* C7, its case: a response of two rows, both rejected, gave None.
C7_Witness ==
    /\ Called("get_kline_data")
    /\ Len(Lines) = 2
    /\ \A i \in 1..2 : ~Parses(Lines[i])
    /\ df = None

\* C8, as stated: the number of bars returned by get_kline_data never
\* exceeds the limit passed, whatever number of rows the response holds.
C8_AtMostLimit == Called("get_kline_data") => Len(Bars) <= limit

\* The frame of the last call of get_technical_indicators runs from the
\* oldest bar to the latest by date.
FrameByDate ==
    /\ Called("get_technical_indicators")
    /\ frame.kind = "Frame"
    /\ \A i \in 1..(Len(frame.rows) - 1) : frame.rows[i].date < frame.rows[i + 1].date

\* Sign of the MACD_line on bar i of the frame.
MacdLineSign(i) == Sign(frame.macd[i].MACD)

RisingCloses ==
    /\ FrameByDate
    /\ Len(frame.rows) >= 26
    /\ \A i \in 1..(Len(frame.rows) - 1) : frame.rows[i].close < frame.rows[i + 1].close

\* The moves of the close from bar to bar are all the same.
EvenCloses ==
    \A i \in 2..(Len(frame.rows) - 1) :
        frame.rows[i + 1].close - frame.rows[i].close
            = frame.rows[i].close - frame.rows[i - 1].close

LatestDifSign == Sign(frame.macd[Len(frame.rows)].MACD_DIF)

\* C10, as stated: on at least 26 bars of strictly increasing close the
\* latest DIF is > 0 and the MACD trend is rising or golden-cross.
C10_RisingClosesRisingTrend ==
    RisingCloses
        => /\ LatestDifSign > 0
           /\ indicators.MACD.trend \in {"rising", "golden-cross"}

\* C10, amended: on at least 26 bars of strictly increasing close the
\* latest DIF is > 0; the MACD trend is rising when the close moves by the
\* same amount on every bar, and otherwise follows the sign of the
\* MACD_line 2 * (DIF - DEA), which a slowing rise makes negative.
C10_RisingClosesPositiveDif ==
    RisingCloses
        => /\ LatestDifSign > 0
           /\ EvenCloses => indicators.MACD.trend = "rising"
           /\ indicators.MACD.trend \in {"rising", "golden-cross"}
                 <=> MacdLineSign(Len(frame.rows)) > 0

\* C10, its case: a rise that slows after its first bar has DIF > 0 and the
\* trend falling.
C10_Witness ==
    /\ RisingCloses
    /\ ~EvenCloses
    /\ LatestDifSign > 0
    /\ indicators.MACD.trend = "falling"

\* RSV of bar i (counted from 1) of the frame over the bars from-th to i-th:
\* (close - min low) / (max high - min low + 0.000001) * 100.
RsvOver(from, i) ==
    LET low  == Min({frame.rows[j].low : j \in from..i})
        high == Max({frame.rows[j].high : j \in from..i})
    IN  Ratio(Times(Times(IntOf(frame.rows[i].close - low), 100), EpsPerUnit),
              Plus(Times(IntOf(high - low), EpsPerUnit), IntOf(1)))

\* The cell of column col on bar i of the frame, as get_technical_indicators
\* reads it after df.fillna(0).
KdjRead(i, col) == fillna0(KdjCell(frame.kdj[i], col))

\* C11, as stated: KDJ starts with a partial window: on each of the first
\* eight bars RSV is computed from the lowest low and the highest high of
\* the bars so far, and K and D are seeded from the first bar (K = D = RSV
\* there); from the ninth bar on the window is the last nine bars.
C11_PartialStart ==
    FrameByDate
        => /\ \A i \in 1..Len(frame.rows) :
                 Compare(KdjRead(i, "RSV"), RsvOver(IF i < 9 THEN 1 ELSE i - 8, i)) = 0
           /\ Compare(KdjRead(1, "K"), RsvOver(1, 1)) = 0
           /\ Compare(KdjRead(1, "D"), RsvOver(1, 1)) = 0

\* The frame read by the labelling step, whichever call left it.
FrameRead == pc = "returned" /\ frame.kind = "Frame"

\* C12: on every bar where K and D are defined J = 3K - 2D, and the KDJ
\* label of the latest bar is overbought iff J > 80, oversold iff J < 20,
\* neutral otherwise (J = 80 and J = 20 are neutral).
C12_KdjZone ==
    FrameRead
        => /\ \A i \in 1..Len(frame.kdj) :
                 ~frame.kdj[i].nan
                     => Same(frame.kdj[i].J,
                             Minus(Times(frame.kdj[i].K, 3), Times(frame.kdj[i].D, 2)))
           /\ LET J == KdjRead(Len(frame.kdj), "J")
              IN  indicators.KDJ.trend =
                      IF Versus(J, 80) > 0 THEN "overbought"
                      ELSE IF Versus(J, 20) < 0 THEN "oversold"
                      ELSE "neutral"

\* C12, its case: K = 40 and D = 20 give J = 80 exactly, labelled neutral.
C12_Witness ==
    /\ FrameRead
    /\ LET row == frame.kdj[Len(frame.kdj)]
       IN  /\ ~row.nan
           /\ Sign(Minus(row.K, row.D)) > 0
           /\ Versus(KdjCell(row, "J"), 80) = 0
    /\ indicators.KDJ.trend = "neutral"

\* The move of the close on bar i of the frame (0 on the first bar, where
\* the move is missing).
CloseMove(i) == IF i > 1 THEN frame.rows[i].close - frame.rows[i - 1].close ELSE 0

\* Sums of the rises and of the falls of the close over the last 14 bars,
\* in hundredths.
RiseSum ==
    LET n == Len(frame.rows)
    IN  SeqSum([j \in 1..14 |-> IF CloseMove(n - 14 + j) > 0 THEN CloseMove(n - 14 + j) ELSE 0])
FallSum ==
    LET n == Len(frame.rows)
    IN  SeqSum([j \in 1..14 |-> IF CloseMove(n - 14 + j) < 0 THEN -CloseMove(n - 14 + j) ELSE 0])

\* RS = (RiseSum / 14) / (FallSum / 14 + 0.000001), as a fraction of whole
\* numbers: numerator and denominator times 14 * 1000000 / Unit.
RsNum == Times(IntOf(RiseSum), 1000000 \div Unit)
RsDen == Plus(Times(IntOf(FallSum), 1000000 \div Unit), IntOf(14))

\* C13: the RSI of the latest bar is 100 - 100 / (1 + RS), RS the mean rise
\* of the close over the trailing 14 bars divided by the mean fall plus
\* 0.000001 (a move that is missing or of the other sign counting as 0);
\* the RSI label is overbought iff RSI > 70, oversold iff RSI < 30, neutral
\* otherwise.
C13_Rsi ==
    FrameRead
        => /\ Called("get_technical_indicators")
                 \* RSI * (1 + RS) = 100 * (1 + RS) - 100
                 => Same(Mul(frame.RSI.num, Plus(RsDen, RsNum)),
                         Mul(Times(RsNum, 100), frame.RSI.den))
           /\ indicators.RSI.trend =
                  IF Versus(frame.RSI, 70) > 0 THEN "overbought"
                  ELSE IF Versus(frame.RSI, 30) < 0 THEN "oversold"
                  ELSE "neutral"

\* C13, its case: a history with rises and falls among its last 14 moves,
\* and an RSI below 30.
C13_Witness ==
    /\ FrameRead
    /\ Called("get_technical_indicators")
    /\ RiseSum > 0 /\ FallSum > 0
    /\ Versus(frame.RSI, 30) < 0
    /\ indicators.RSI.trend = "oversold"

\* One of the two get_technical_indicators has returned an indicator set.
IndicatorSet ==
    /\ pc = "returned"
    /\ call \in {"get_technical_indicators", "StockDataFetcher.get_technical_indicators"}
    /\ indicators # EmptyDict

\* A reported float is a number: not NaN, not an infinity.
Finite(x) == IF "kind" \in DOMAIN x THEN x.kind = "num" ELSE ~x.nan

\* A finite float as a fraction of integers.
Fraction(x) == IF "kind" \in DOMAIN x THEN Ratio(x.num, <<x.den, <<>>>>) ELSE x

\* The value reported for round(x, 2) lies between the whole numbers lo and
\* hi: rounding to the nearest hundredth (ties to even) gives a value in
\* lo..hi exactly when lo - 0.005 <= x <= hi + 0.005.
Rounded2Within(r, lo, hi) ==
    LET x   == Fraction(r.value)
        x200 == Ratio(Times(x.num, 200), x.den)
    IN  /\ r.ndigits = 2
        /\ Finite(r.value)
        /\ Versus(x200, 200 * lo - 1) >= 0
        /\ Versus(x200, 200 * hi + 1) <= 0

\* C14: for every series of at least 20 bars the RSI value reported by
\* get_technical_indicators (of either implementation) lies in the closed
\* range [0, 100].
C14_RsiRange == IndicatorSet => Rounded2Within(indicators.RSI.RSI, 0, 100)

\* The closes of the last 20 bars of the frame, in hundredths.
Last20 ==
    LET n == Len(frame.rows)
    IN  AsSeq([j \in 1..20 |-> frame.rows[n - 20 + j].close])

\* Latest close minus MID, as a fraction.
MidGap ==
    LET n == Len(frame.rows)
    IN  Ratio(Minus(Times(frame.MA20.den, frame.rows[n].close), frame.MA20.num),
              frame.MA20.den)

\* |close - MID| > 2 * STD, as (close - MID)^2 > 4 * STD^2.
GapBeyondBand ==
    Sign(Minus(Mul(Mul(MidGap.num, MidGap.num), frame.VAR20.den),
               Times(Mul(frame.VAR20.num, Mul(MidGap.den, MidGap.den)), 4))) > 0

\* C15: for every series of at least 20 bars MID is the mean of the last 20
\* closes, STD their sample deviation (STD >= 0, hence LOWER <= MID <= UPPER
\* for UPPER = MID + 2 * STD and LOWER = MID - 2 * STD), and the Bollinger
\* label is break-upper iff close > UPPER, else break-lower iff close < LOWER,
\* else near-upper iff close > MID, else near-lower.
C15_Bollinger ==
    FrameRead
        => /\ Called("get_technical_indicators")
                 => /\ Same(Times(frame.MA20.num, 20),
                            Mul(IntOf(SeqSum(Last20)), frame.MA20.den))
                    \* 19 * STD^2 = sum of (c - MID)^2, times 20^2
                    /\ Same(Times(frame.VAR20.num, 19 * 20 * 20),
                            Mul(SumSquares([j \in 1..20 |-> 20 * Last20[j] - SeqSum(Last20)]),
                                frame.VAR20.den))
           /\ Sign(frame.VAR20.num) >= 0
           /\ indicators.BOLL.MID.value = frame.MA20
           /\ indicators.BOLL.UPPER.value =
                  [nan |-> FALSE, mid |-> frame.MA20, var |-> frame.VAR20, side |-> 1]
           /\ indicators.BOLL.LOWER.value =
                  [nan |-> FALSE, mid |-> frame.MA20, var |-> frame.VAR20, side |-> -1]
           /\ indicators.BOLL.trend =
                  IF Sign(MidGap.num) > 0 /\ GapBeyondBand THEN "break-upper"
                  ELSE IF Sign(MidGap.num) < 0 /\ GapBeyondBand THEN "break-lower"
                  ELSE IF Sign(MidGap.num) > 0 THEN "near-upper"
                  ELSE "near-lower"

\* C15, its case: a band of positive width and a close equal to MID, labelled
\* near-lower.
C15_Witness ==
    /\ FrameRead
    /\ Sign(frame.VAR20.num) > 0
    /\ Sign(MidGap.num) = 0
    /\ indicators.BOLL.trend = "near-lower"

\* The provider delivered 20 valid rows or more, all of the same close.
ConstantCloses ==
    /\ Called("get_technical_indicators")
    /\ Len(Lines) >= 20
    /\ \A i \in 1..Len(Lines) : ValidRow(Lines[i]) /\ Lines[i][3] = Lines[1][3]

\* C16: for a series of at least 20 bars of one and the same close,
\* get_technical_indicators returns an indicator set in which STD = 0 and
\* BOLL UPPER = MID = LOWER = close, and the RSI comes from the guarded
\* denominator: average gain 0 over average loss 0 plus 0.000001, which is 0.
C16_ConstantClose ==
    ConstantCloses
        => /\ {"BOLL", "RSI"} \subseteq DOMAIN indicators
           /\ ~frame.VAR20.nan /\ Sign(frame.VAR20.num) = 0
           /\ \A band \in {"UPPER", "LOWER"} :
                 /\ ~indicators.BOLL[band].value.nan
                 /\ Sign(indicators.BOLL[band].value.var.num) = 0
                 /\ indicators.BOLL[band].value.mid = indicators.BOLL.MID.value
           /\ ~indicators.BOLL.MID.value.nan
           /\ Versus(Ratio(Times(indicators.BOLL.MID.value.num, 100),
                           Times(indicators.BOLL.MID.value.den, Unit)),
                     RawValue(Lines[1][3])) = 0
           /\ RiseSum = 0 /\ FallSum = 0
           /\ Sign(RsDen) > 0
           /\ ~indicators.RSI.RSI.value.nan
           /\ Same(Mul(indicators.RSI.RSI.value.num, Plus(RsDen, RsNum)),
                   Mul(Times(RsNum, 100), indicators.RSI.RSI.value.den))
           /\ Versus(indicators.RSI.RSI.value, 0) = 0

\* C16, its case: a history of one close gave an indicator set with an RSI
\* of 0.
C16_Witness ==
    /\ ConstantCloses
    /\ "RSI" \in DOMAIN indicators
    /\ Versus(indicators.RSI.RSI.value, 0) = 0
    /\ Sign(frame.VAR20.num) = 0

\* The mean of the last w closes of the frame, in hundredths (w bars or more).
FullWindowMean(w) ==
    LET n == Len(frame.rows)
    IN  Ratio(IntOf(SeqSum([j \in 1..w |-> frame.rows[n - w + j].close])), IntOf(w))

\* C17, as stated: a moving average whose window is longer than the series
\* is not reported as the number 0; the reported MA30 or MA60 is 0 only if
\* the series holds the full window and the mean of its closes is 0.
C17_UnavailableNotZero ==
    FrameRead /\ Called("get_technical_indicators")
        => \A col \in {<<"MA30", 30>>, <<"MA60", 60>>} :
              Rounded2Within(indicators.MA[col[1]], 0, 0)
                  => /\ Len(frame.rows) >= col[2]
                     /\ Rounded2Within(round(FullWindowMean(col[2]), 2), 0, 0)

RangelessWindow ==
    /\ Called("get_technical_indicators")
    /\ Len(Lines) >= 20
    /\ \A i \in 1..Len(Lines) : ValidRow(Lines[i])
    /\ frame.kind = "Frame"
    /\ \A j \in (Len(frame.rows) - 8)..Len(frame.rows) :
          frame.rows[j].high = frame.rows[j].low

\* C19: in EastMoneyAPI.get_technical_indicators, for a series of at least 20
\* bars with high = low on every bar of the trailing 9-bar window, RSV is
\* (close - min low) / (max high - min low + 0.000001) * 100, no division by
\* zero occurs (an indicator set is returned, every denominator of the KDJ
\* columns is positive), and the reported K, D and J are finite numbers.
C19_GuardedRsv ==
    RangelessWindow
        => LET n == Len(frame.rows)
           IN  /\ "KDJ" \in DOMAIN indicators
               /\ ~frame.kdj[n].nan
               /\ frame.kdj[n].scale # <<>>
               /\ Sign(RsvOver(n - 8, n).den) > 0
               /\ Compare(KdjCell(frame.kdj[n], "RSV"), RsvOver(n - 8, n)) = 0
               /\ \A col \in {"K", "D", "J"} :
                     /\ Finite(indicators.KDJ[col].value)
                     /\ Sign(indicators.KDJ[col].value.den) > 0
                     /\ Compare(indicators.KDJ[col].value, KdjCell(frame.kdj[n], col)) = 0

\* C19, its case: a window of no range at all (max high = min low), where the
\* denominator is the 0.000001 alone and K = D = J = 0 are reported.
C19_Witness ==
    /\ RangelessWindow
    /\ LET n == Len(frame.rows)
       IN  /\ \A j \in (n - 8)..n : frame.rows[j].high = frame.rows[n].low
           /\ "KDJ" \in DOMAIN indicators
           /\ Finite(indicators.KDJ.J.value)
           /\ Versus(indicators.KDJ.J.value, 0) = 0

\* StockDataFetcher.get_technical_indicators has returned an indicator set.
FetcherRead ==
    /\ Called("StockDataFetcher.get_technical_indicators")
    /\ frame.kind = "FetcherFrame"
    /\ indicators # EmptyDict

\* The trailing 9-bar window has no range: max high = min low.
ZeroRangeWindow ==
    LET n == Len(frame.rows)
    IN  Max({frame.rows[j].high : j \in (n - 8)..n})
            = Min({frame.rows[j].low : j \in (n - 8)..n})

\* C20, as stated: StockDataFetcher.get_technical_indicators guards its
\* denominators as EastMoneyAPI does; with a 9-bar window of no range or an
\* average loss of 0 over 14 bars the reported J and RSI are finite numbers,
\* not NaN and not infinite.
C20_FetcherGuards ==
    FetcherRead /\ (ZeroRangeWindow \/ FallSum = 0)
        => /\ Finite(indicators.KDJ.J.value)
           /\ Finite(indicators.RSI.RSI.value)

\* C21, as stated: get_technical_indicators returns the empty result only
\* when the series is absent, empty or shorter than 20 bars; for 20 bars or
\* more produced by get_kline_data, whatever their field values and date
\* texts, the result is a non-empty indicator set.
C21_EmptyOnlyWhenShort ==
    Called("get_technical_indicators")
        => LET got == get_kline_data(response, DEFAULT_LIMIT)
           IN  indicators = EmptyDict => got.kind = "None" \/ Len(got.rows) < 20

\* One of the two implementations has computed the MACD columns.
MacdComputed ==
    /\ pc = "returned"
    /\ \/ call = "get_technical_indicators" /\ frame.kind = "Frame"
       \/ call = "StockDataFetcher.get_technical_indicators" /\ frame.kind = "FetcherFrame"

\* The column col of the MACD rows on bar i, as a fraction.
MacdAt(i, col) == Ratio(frame.macd[i][col], <<frame.macd[i].scale, <<>>>>)

\* The rows of the MACD columns are fractions over a denominator that grows
\* by the factor 13 * 27 * 10 from a bar to the next.  For numerators y and x
\* of bar i and prev of bar i - 1,
\*     y = a * x + (1 - a) * prev  with  a = 2 / (span + 1)
\* reads (span + 1) * y = 2 * x + (span - 1) * 13 * 27 * 10 * prev.
EmaFollows(y, x, prev, span) ==
    Same(Times(y, span + 1),
         Plus(Times(x, 2), Times(prev, (span - 1) * 13 * 27 * 10)))

\* C22: every EMA of the MACD starts at its first input and follows
\* ema[i] = a * x[i] + (1 - a) * ema[i-1] with a = 2 / (span + 1); on every
\* bar DIF = EMA(close, 12) - EMA(close, 26), DEA = EMA(DIF, 9) and
\* MACD_line = 2 * (DIF - DEA); on the first bar DIF = DEA = MACD_line = 0.
C22_MacdRecurrence ==
    MacdComputed
        => /\ \A col \in {"exp1", "exp2"} :
                 Versus(MacdAt(1, col), frame.rows[1].close) = 0
           /\ \A col \in {"MACD_DIF", "MACD_DEA", "MACD"} : Versus(MacdAt(1, col), 0) = 0
           /\ \A i \in 2..Len(frame.rows) :
                 LET row   == frame.macd[i]
                     last  == frame.macd[i - 1]
                     close == Times(<<row.scale, <<>>>>, frame.rows[i].close)
                 IN  /\ row.scale = NatMul(last.scale, 13 * 27 * 10)
                     /\ EmaFollows(row.exp1, close, last.exp1, 12)
                     /\ EmaFollows(row.exp2, close, last.exp2, 26)
                     /\ EmaFollows(row.MACD_DEA, row.MACD_DIF, last.MACD_DEA, 9)
           /\ \A i \in 1..Len(frame.rows) :
                 /\ Same(frame.macd[i].MACD_DIF,
                         Minus(frame.macd[i].exp1, frame.macd[i].exp2))
                 /\ Same(frame.macd[i].MACD,
                         Times(Minus(frame.macd[i].MACD_DIF, frame.macd[i].MACD_DEA), 2))

\* C22, its case: a history whose close moves, with DIF and DEA 0 on the
\* first bar and not 0 on the latest.
C22_Witness ==
    /\ MacdComputed
    /\ Versus(MacdAt(1, "MACD_DIF"), 0) = 0
    /\ Versus(MacdAt(Len(frame.rows), "MACD_DIF"), 0) # 0
    /\ Versus(MacdAt(Len(frame.rows), "MACD_DEA"), 0) # 0
    /\ Versus(MacdAt(Len(frame.rows), "MACD"), 0) # 0

(***************************************************************************)
(* The claims on main.                                                     *)
(***************************************************************************)
Printed(notice) == \E k \in 1..Len(printed) : printed[k] = notice

IndicatorKeys == {"MACD", "KDJ", "RSI", "BOLL", "MA", "price_data"}

\* C23: when the fetch of the technical indicators yields the empty dict
\* or None, main prints the notice that the indicators are unavailable,
\* stock_data holds none of the indicator keys, and main stands at the
\* analysis-type prompt of the same request.
C23_IndicatorsUnavailable ==
    (Printed("fetching indicators") /\ Falsy(tech_data))
        => /\ at = "choice prompt"
           /\ Printed("indicators unavailable")
           /\ Printed("analysis menu")
           /\ DOMAIN stock_data \cap IndicatorKeys = {}
           /\ stock_data.ts_code = stock_code

C23_Witness ==
    /\ at = "choice prompt"
    /\ Printed("fetching indicators")
    /\ Falsy(tech_data)
    /\ Printed("indicators unavailable")
    /\ ~Falsy(financial)

(***************************************************************************)
(* The claims on the retry loops.                                          *)
(***************************************************************************)
Runs(name) == routine = name /\ step # "idle"

\* The calls or attempts made so far that failed with a RequestException.
NetworkFailures ==
    Cardinality({k \in 1..calls :
                    outcomes[k].kind = "raises"
                      /\ outcomes[k].exception = "RequestException"})

\* C24: _make_request makes at most retry_count (3) HTTP attempts, one after
\* the other; it returns the JSON of the first attempt that succeeds and
\* makes no attempt after it; after the attempt number i + 1 failed with a
\* request error, the last one included, it has waited 2^i seconds (1, 2,
\* 4); after 3 failed attempts it returns None and raises nothing.
C24_MakeRequest ==
    Runs("_make_request")
        => /\ calls <= RETRY_COUNT
           /\ \A k \in 1..(calls - 1) :
                 outcomes[k].kind = "raises" /\ outcomes[k].exception = "RequestException"
           /\ Len(slept) = NetworkFailures
           /\ \A k \in 1..Len(slept) : slept[k] = 2 ^ (k - 1)
           /\ step = "loop" => calls = attempt /\ NetworkFailures = calls
           /\ (step = "returned" /\ calls > 0 /\ outcomes[calls].kind = "returns")
                 => data = outcomes[calls].value
           /\ NetworkFailures = RETRY_COUNT
                 => /\ slept = <<1, 2, 4>>
                    /\ step \in {"loop", "returned"}
                    /\ step = "returned" => data = None

C24_Witness ==
    /\ Runs("_make_request")
    /\ step = "returned"
    /\ NetworkFailures = RETRY_COUNT
    /\ slept = <<1, 2, 4>>
    /\ data = None

\* What fetch_data_with_retry has done so far agrees with the statement.
FetchAsStated ==
    Runs("fetch_data_with_retry")
        => /\ calls <= MAX_RETRIES
           /\ \A k \in 1..(calls - 1) :
                 outcomes[k].kind = "raises" /\ outcomes[k].exception = "RequestException"
           /\ step = "loop" => NetworkFailures = calls
           /\ step \in {"loop", "returned"}
           /\ step = "returned"
                 => /\ data = fetch_data_with_retry(outcomes)
                    /\ IF calls > 0 /\ outcomes[calls].kind = "returns"
                       THEN data = outcomes[calls].value
                       ELSE /\ data = None
                            /\ NetworkFailures = calls => calls = MAX_RETRIES

\* C25: fetch_data_with_retry terminates after at most MAX_RETRIES (3)
\* calls of func; it returns the value of the first call that returns, be it
\* empty or None, and calls func again only after a network exception; on
\* another exception it stops and returns None; after 3 network exceptions
\* it returns None.
C25_RetryTerminates ==
    /\ []FetchAsStated
    /\ (routine = "fetch_data_with_retry" /\ step = "loop") ~> (step = "returned")

C25_Witness ==
    /\ Runs("fetch_data_with_retry")
    /\ step = "returned"
    /\ calls = MAX_RETRIES
    /\ NetworkFailures = MAX_RETRIES
    /\ data = None

(***************************************************************************)
(* The claims on the order of delivery and on the labels of the averages.  *)
(***************************************************************************)
\* The bars of the invocation that ends.
Delivered == get_kline_data(response, DEFAULT_LIMIT)

\* The invocation that ends was given the bars of the one kept, in another
\* order: at least 20 bars, of distinct and well-formed dates.
SameBarsReordered ==
    /\ Called("get_technical_indicators")
    /\ earlier.kind = "Earlier"
    /\ earlier.bars.kind = "DataFrame"
    /\ Delivered.kind = "DataFrame"
    /\ Len(Delivered.rows) >= MIN_BARS
    /\ Len(Delivered.rows) = Len(earlier.bars.rows)
    /\ {Delivered.rows[i] : i \in 1..Len(Delivered.rows)}
           = {earlier.bars.rows[i] : i \in 1..Len(earlier.bars.rows)}
    /\ Delivered.rows # earlier.bars.rows
    /\ ~HasEqualDates(Delivered.rows)
    /\ \A i \in 1..Len(Delivered.rows) : IsDate(Delivered.rows[i].date)

\* C26: the indicator set does not depend on the order of delivery: two
\* orders of the same 20 or more bars of distinct dates give identical
\* results; the latest bar is the bar of the greatest date, the previous bar
\* the one before it by date, and price_data.current is the close of the
\* bar of the greatest date.
C26_OrderIndependent ==
    SameBarsReordered
        => LET n      == Len(Delivered.rows)
               dates  == {to_datetime(Delivered.rows[i].date) : i \in 1..n}
               newest == CHOOSE i \in 1..n :
                            to_datetime(Delivered.rows[i].date) = Max(dates)
           IN  /\ indicators = earlier.indicators
               /\ indicators # EmptyDict
               /\ frame.rows[n].date = Max(dates)
               /\ frame.rows[n - 1].date = Max(dates \ {Max(dates)})
               /\ indicators.price_data.current = Delivered.rows[newest].close

C26_Witness ==
    /\ SameBarsReordered
    /\ Delivered.rows[1].date = DateText(2)
    /\ earlier.bars.rows[1].date = DateText(MIN_BARS)
    /\ indicators.MACD = earlier.indicators.MACD

\* The latest close of the frame, as a number of hundredths.
LatestClose == Ratio(IntOf(frame.rows[Len(frame.rows)].close), IntOf(1))

\* C27: the label of the price trend is "rising" only when the latest close
\* is greater than the arithmetic mean of the last 30 closes, and "falling"
\* otherwise; a series of 20 to 29 bars, which has no such mean, is not
\* labelled "rising" for want of it.
C27_RisingOnlyAboveMean ==
    FrameRead /\ Called("get_technical_indicators")
        => indicators.MA.trend =
              IF Len(frame.rows) >= 30 /\ Gt(LatestClose, FullWindowMean(30))
              THEN "rising" ELSE "falling"

(***************************************************************************)
(* The claims on the range of RSV, K and D.                                *)
(***************************************************************************)
\* Every bar of the frame has low <= close <= high.
BarsInRange ==
    \A i \in 1..Len(frame.rows) :
        /\ frame.rows[i].low <= frame.rows[i].close
        /\ frame.rows[i].close <= frame.rows[i].high

\* The cell of column col on bar i lies in the closed range [0, 100].
KdjWithin(i, col) ==
    /\ ~frame.kdj[i].nan
    /\ Versus(KdjCell(frame.kdj[i], col), 0) >= 0
    /\ Versus(KdjCell(frame.kdj[i], col), 100) <= 0

\* C28: if every bar has low <= close <= high, RSV lies in [0, 100] on every
\* bar where it is defined (the ninth on), and so do K and D on the latest
\* bar, which are the values reported; J may leave the range.  Whatever the
\* bars, the computation completes: no denominator of the KDJ columns is 0,
\* and an indicator set with finite K, D and J is returned.
C28_KdjRange ==
    (FrameRead /\ Called("get_technical_indicators"))
        => LET n == Len(frame.rows)
           IN  /\ BarsInRange
                    => /\ \A i \in KDJ_WINDOW..n : KdjWithin(i, "RSV")
                       /\ KdjWithin(n, "K")
                       /\ KdjWithin(n, "D")
                       /\ Rounded2Within(indicators.KDJ.K, 0, 100)
                       /\ Rounded2Within(indicators.KDJ.D, 0, 100)
               /\ \A i \in KDJ_WINDOW..n : ~frame.kdj[i].nan /\ frame.kdj[i].scale # <<>>
               /\ indicators # EmptyDict
               /\ \A col \in {"K", "D", "J"} :
                     /\ Finite(indicators.KDJ[col].value)
                     /\ Compare(indicators.KDJ[col].value, KdjCell(frame.kdj[n], col)) = 0

\* C28, its case: bars in range, K and D within [0, 100], J above 100.
C28_Witness ==
    /\ FrameRead
    /\ Called("get_technical_indicators")
    /\ BarsInRange
    /\ KdjWithin(Len(frame.rows), "K")
    /\ KdjWithin(Len(frame.rows), "D")
    /\ Versus(KdjCell(frame.kdj[Len(frame.rows)], "J"), 100) > 0

(***************************************************************************)
(* The claims on QuantAgent and on the loop of main.                       *)
(***************************************************************************)
QuantReported == report.kind = "report" /\ report.strategy = "quantitative_trading"

\* C29: each of the four factor scores of QuantAgent.analyze is an integer
\* from 1 to 4, so the overall score lies between 4 and 16 and the advice is
\* strong buy (score >= 12), buy (8 to 11) or hold (4 to 7); the sell advice
\* (score < 4) is given for no input.
C29_QuantScores ==
    QuantReported
        => /\ \A factor \in {"valuation", "growth", "quality", "liquidity"} :
                 report.factor_scores[factor] \in 1..4
           /\ report.overall_score =
                 report.factor_scores.valuation + report.factor_scores.growth
                     + report.factor_scores.quality + report.factor_scores.liquidity
           /\ report.overall_score \in 4..16
           /\ report.investment_advice =
                 IF report.overall_score >= 12 THEN "strong buy"
                 ELSE IF report.overall_score >= 8 THEN "buy" ELSE "hold"
           /\ report.investment_advice # "sell"

C29_Witness ==
    /\ QuantReported
    /\ report.overall_score = 4
    /\ report.investment_advice = "hold"
    /\ stock_data.revenue_growth < 0

\* The loop has ended only by the break of line 49, on an input that reads
\* 'q' once stripped and lower-cased.
EndsOnQuit ==
    /\ at \in {"code prompt", "choice prompt", "exited"}
    /\ at = "exited" => lower(code_or_name) = <<"q">> /\ Printed("exit")

\* A request that was refused or that failed stands at the stock-code prompt.
ReturnsToPrompt ==
    (\/ Printed("invalid code")
     \/ Printed("quotes failed")
     \/ Printed("analysis error")
     \/ Printed("error"))
        => at = "code prompt"

\* What the analysis reads was fetched for this request.
NothingCarried ==
    at = "choice prompt"
        => /\ stock_code = format_code(code_or_name)
           /\ stock_data.ts_code = stock_code
           /\ stock_data.price = get(quotes, "price", 0)
           /\ IF Falsy(tech_data)
              THEN DOMAIN stock_data \cap IndicatorKeys = {}
              ELSE \A key \in DOMAIN tech_data : stock_data[key] = tech_data[key]
           /\ IF Falsy(financial)
              THEN /\ stock_data.pe_ttm = 0
                   /\ stock_data.roe = 0
                   /\ stock_data.name = get(quotes, "name", stock_code)
              ELSE \A key \in DOMAIN financial : stock_data[key] = financial[key]

\* C30: the loop of main ends only when the stock-code input, stripped and
\* lower-cased, equals 'q'; an all-digit code with an unknown prefix, a
\* failed quote fetch, an unknown analysis choice and any exception raised
\* while a request is processed each return to the stock-code prompt; and
\* nothing of the request before (stock_data, tech_data) is carried into
\* the next one.
C30_LoopEndsOnQuit ==
    /\ EndsOnQuit
    /\ ReturnsToPrompt
    /\ NothingCarried
====
